---- MODULE Spec2Model ----
(***************************************************************************)
(* Agent task queue and orchestration model of data-alchemy-finance.       *)
(*                                                                         *)
(* Part 1 (Spec, SpecFair, SpecLog): AgentManager.submitTask and the       *)
(* per-agent queue of BaseAgent (addTask, processNextTask, log).  One step *)
(* of the model is one turn of the JavaScript event loop, continuations of *)
(* already settled promises included: a call of submitTask, the            *)
(* continuation of processNextTask after the awaited handler has settled,  *)
(* or one timer callback.  Wall-clock values are not modelled (startedAt   *)
(* and completedAt are set or not; averageProcessingTime, accuracy and     *)
(* speed are left out); the order of events is.                            *)
(*                                                                         *)
(* Part 2 (SpecWf): SupervisorAgent.orchestrateWorkflow,                   *)
(* executeWorkflowStep and performHealthChecks, with a clock in            *)
(* milliseconds that moves from one timer deadline or start instant to the *)
(* next.  orchestrateWorkflow is reached only through the supervisor's own *)
(* drain loop, so one orchestration runs at a time.  The supervisor's log  *)
(* lines are left out.                                                     *)
(***************************************************************************)
EXTENDS Integers, Sequences, FiniteSets, TLC

\* ---------------------------------------------------------------- bounds
MaxCalls == 3          \* submitTask calls made by the environment (Spec)
MaxFairCalls == 2      \* submitTask calls made by the environment (SpecFair)
MaxAppends == 1003     \* log appends explored by SpecLog
MaxRuns == 2           \* orchestrateWorkflow calls made by the environment
MaxLongRuns == 3       \* the same, in the longer runs of SpecWfLong
MaxTime == 490000      \* the clock stops here (ms since construction)
MaxAccessCalls == 1    \* submitTask calls made by the environment (SpecAccess)
MaxLimit == 3          \* largest explicit limit passed to getAgentLogs
MaxLogCount == 2       \* no configuration update after this many log calls

\* ------------------------------------------------------- program constants
LogCap == 1000         \* BaseAgent.log keeps the last 1000 entries
StepDelay == 2000      \* simulateProcessing(2000) in executeWorkflowStep
HealthCheckInterval == 60000   \* settings.healthCheckInterval
InitialAvgResponseTime == 1000 \* avgResponseTime of a new health entry
NextTaskDelay == 1000  \* BaseAgent: pause before the next task after a success
RecoveryDelay == 5000  \* BaseAgent: pause before the next task after a failure
DefaultLimit == 100    \* getLogs(limit = 100)
MaxRetryAttempts == 3  \* SupervisorAgent.settings.maxRetryAttempts

MaxTasks == 3          \* longest task list passed to balanceLoad
MaxTargets == 3        \* longest targetAgents list passed to balanceLoad
MaxFailed == 2         \* longest failedTasks list passed to handleFailures
MaxRetryCount == 3     \* largest retryCount of a failed task

\* The registry built by AgentManager.initializeAgents.
Agents == {"parser", "cleaner", "labeler"}

\* Agent names the environment passes to submitTask.
AgentNames == {"parser", "cleaner", "nonexistent"}

\* Task types the environment passes to submitTask.
TaskTypes == {"detect_structure", "normalize_text"}

\* Payload shapes the environment passes: one the handler accepts, one that
\* makes it throw (detect_structure: 'No sample data provided';
\* normalize_text: TypeError on data.text).
Payloads == {"valid", "invalid"}

\* The case labels of each agent's processTask switch.
Handlers ==
  [parser  |-> {"parse_csv", "parse_excel", "parse_pdf", "detect_structure"},
   cleaner |-> {"clean_data", "normalize_text", "standardize_currency",
                "validate_dates", "detect_outliers"},
   labeler |-> {"label_transactions", "categorize_data", "extract_entities",
                "analyze_patterns"}]

NoValue == "undefined"  \* an optional field that was never assigned

\* this.agents.get(agentName): the registered agent, or undefined.
agentsGet_default(agentName) ==
  IF agentName \in Agents THEN agentName ELSE "parser"

agentsGet(agentName) ==
  IF agentName \in Agents THEN agentName ELSE NoValue

VARIABLES
  agents,       \* agent name -> the BaseAgent instance's fields
  tasks,        \* task number n -> the AgentTask object with id task_n
  taskCounter,  \* AgentManager.taskCounter
  calls         \* the submitTask calls made so far, in call order

VARIABLES
  now,              \* Date.now(), in ms since the supervisor was constructed
  nextHealthCheck,  \* the instant the setInterval callback fires next
  agentHealth,      \* SupervisorAgent.agentHealth
  orchs,            \* the orchestration objects created so far
  taskRegistry,     \* SupervisorAgent.taskRegistry: workflowId -> index in orchs
  frame,            \* the suspended orchestrateWorkflow call, or NoFrame
  stepTimers,       \* pending simulateProcessing timers: [step, due]
  wfCalls           \* the orchestrateWorkflow calls made so far

VARIABLES
  settings,         \* agent name -> the `settings` field of the agent
  reply             \* what the call that returned in this turn handed back

VARIABLES
  supervisorSettings,  \* SupervisorAgent.settings
  policyFrame          \* the balanceLoad / handleFailures call suspended at
                       \* its await, or NoPolicyFrame

queueVars == <<agents, tasks, taskCounter, calls>>

wfVars == <<now, nextHealthCheck, agentHealth, orchs, taskRegistry, frame,
            stepTimers, wfCalls>>

accessVars == <<settings, reply>>

policyVars == <<supervisorSettings, policyFrame>>

vars == <<agents, tasks, taskCounter, calls, now, nextHealthCheck, agentHealth,
          orchs, taskRegistry, frame, stepTimers, wfCalls, settings, reply,
          supervisorSettings, policyFrame>>

\* The `settings` field initialisers of the three registered agents (values
\* as written in the source).
InitialSettings ==
  [parser  |-> [csvDelimiter |-> "auto", autoDetectEncoding |-> "true",
                headerRowIndex |-> "0", skipEmptyRows |-> "true",
                maxRowsToAnalyze |-> "1000",
                dateFormats |-> "MM/DD/YYYY,DD/MM/YYYY,YYYY-MM-DD,MM-DD-YYYY"],
   cleaner |-> [normalizeText |-> "true", standardizeCurrency |-> "true",
                validateDates |-> "true", removeInvalidEntries |-> "false",
                fillMissingValues |-> "forward", outlierDetection |-> "true",
                outlierThreshold |-> "2.5"],
   labeler |-> [confidenceThreshold |-> "0.85", enableAutoLabeling |-> "true",
                useContextualAnalysis |-> "true",
                categoryMappings |-> "Income,Food,Transportation,Housing,Healthcare,Entertainment",
                ruleBasedLabeling |-> "true"]]

\* The name each agent passes to the BaseAgent constructor.
DisplayName ==
  [parser |-> "Parser Agent", cleaner |-> "Cleaner Agent",
   labeler |-> "Labeler Agent"]

\* What each agent's getCapabilities() returns.
Capabilities ==
  [parser  |-> <<"CSV delimiter detection", "PDF text block extraction",
                 "Excel sheet parsing", "Data type inference",
                 "Structure analysis", "Format validation">>,
   cleaner |-> <<"Text normalization", "Currency standardization",
                 "Date validation", "Missing value imputation",
                 "Outlier detection", "Data quality assessment">>,
   labeler |-> <<"Transaction classification", "Entity extraction",
                 "Pattern recognition", "Contextual analysis",
                 "Anomaly detection", "Category mapping">>]

\* No accessor was called in this turn.
NoReply == [op |-> "none"]

AccessInit ==
  /\ settings = InitialSettings
  /\ reply = NoReply

\* A turn that is not an accessor call: nothing is handed back, and no
\* configuration changes.
NoAccessorCall ==
  /\ reply' = NoReply
  /\ UNCHANGED settings

\* The `settings` field initialiser of the SupervisorAgent.
InitialSupervisorSettings ==
  [maxConcurrentTasks |-> 10, taskTimeoutMinutes |-> 30,
   autoRetryFailedTasks |-> TRUE, maxRetryAttempts |-> MaxRetryAttempts,
   loadBalancingEnabled |-> TRUE, priorityThreshold |-> 5,
   healthCheckInterval |-> HealthCheckInterval]

NoPolicyFrame == [op |-> "none"]

PolicyInit ==
  /\ supervisorSettings = InitialSupervisorSettings
  /\ policyFrame = NoPolicyFrame

\* A turn in which the supervisor runs neither balanceLoad nor
\* handleFailures, and its configuration is not updated.
NoPolicyCall == UNCHANGED policyVars

\* ------------------------------------------------------------- BaseAgent
\* Fields of a freshly constructed agent.  inflight holds the tasks whose
\* processNextTask frame is suspended at `await this.processTask(task)`,
\* timersNext / timersRecover count the pending setTimeout callbacks of the
\* success and failure branch, logCount counts the calls of log.
NewAgent ==
  [status        |-> "idle",
   currentTask   |-> "Ready",
   progress      |-> 0,
   taskQueue     |-> <<>>,
   metrics       |-> [tasksProcessed |-> 0, tasksSuccessful |-> 0, tasksFailed |-> 0],
   logs          |-> <<>>,
   logCount      |-> 0,
   inflight      |-> {},
   timersNext    |-> 0,
   timersRecover |-> 0]

\* logs.slice(-n): the last n entries (all of them when there are fewer).
SliceLast(s, n) ==
  IF Len(s) <= n THEN s ELSE SubSeq(s, Len(s) - n + 1, Len(s))

\* BaseAgent.log: append, then keep only the last 1000.
log_keepFirst(ag, level, message, data) ==
  LET entry  == [seq |-> ag.logCount + 1, level |-> level,
                 message |-> message, data |-> data]
      pushed == Append(ag.logs, entry)
  IN  [ag EXCEPT !.logs = IF Len(pushed) > LogCap THEN SubSeq(pushed, 1, LogCap)
                          ELSE pushed,
                 !.logCount = @ + 1]

log(ag, level, message, data) ==
  LET entry  == [seq |-> ag.logCount + 1, level |-> level,
                 message |-> message, data |-> data]
      pushed == Append(ag.logs, entry)
  IN  [ag EXCEPT !.logs = IF Len(pushed) > LogCap THEN SliceLast(pushed, LogCap)
                          ELSE pushed,
                 !.logCount = @ + 1]

\* this.taskQueue.shift(): the head and the remaining queue.
shift_pop(q) ==
  [task |-> q[Len(q)], rest |-> SubSeq(q, 1, Len(q) - 1)]

shift(q) ==
  [task |-> Head(q), rest |-> Tail(q)]

\* The test of addTask that decides whether it enters the drain loop.
entersDrain_notProcessing(ag) ==
  ag.status # "processing"

entersDrain(ag) ==
  ag.status = "idle"

\* metrics.tasksProcessed++; metrics.tasksSuccessful++
countSuccess_successfulOnly(m) ==
  [m EXCEPT !.tasksSuccessful = @ + 1]

countSuccess(m) ==
  [m EXCEPT !.tasksProcessed = @ + 1, !.tasksSuccessful = @ + 1]

\* metrics.tasksProcessed++; metrics.tasksFailed++
countFailure_processedOnly(m) ==
  [m EXCEPT !.tasksProcessed = @ + 1]

countFailure(m) ==
  [m EXCEPT !.tasksProcessed = @ + 1, !.tasksFailed = @ + 1]

\* task.status = 'completed'; task.result = result
recordSuccess(task, result) ==
  [task EXCEPT !.status = "completed", !.result = result]

\* task.status = 'failed'; task.error = message
recordFailure_asResult(task, message) ==
  [task EXCEPT !.status = "failed", !.result = message]

recordFailure(task, message) ==
  [task EXCEPT !.status = "failed", !.error = message]

\* setTimeout(() => this.processNextTask(), 1000)
scheduleNext_never(ag) ==
  ag

scheduleNext(ag) ==
  [ag EXCEPT !.timersNext = @ + 1]

\* setTimeout(() => { this.status = 'idle'; this.processNextTask(); }, 5000)
scheduleRecovery_idleNow(ag) ==
  [ag EXCEPT !.timersRecover = @ + 1, !.status = "idle"]

scheduleRecovery(ag) ==
  [ag EXCEPT !.timersRecover = @ + 1]

\* The outcome of `await this.processTask(task)`: the switch on task.type of
\* the agent, then the handler applied to task.data.  sync tells whether the
\* promise is already settled when processTask returns it (the default case
\* throws before any await), so that the await resumes within the same
\* event-loop turn; the handlers of the task types submitted here
\* (detectStructure, normalizeText) first await a timer and read task.data
\* afterwards.
processTask_noDefault(a, task) ==
  IF task.type \notin Handlers[a]
    THEN [ok |-> TRUE, value |-> NoValue, sync |-> TRUE]
    ELSE IF task.data = "invalid"
      THEN [ok |-> FALSE, value |-> "handler error", sync |-> FALSE]
      ELSE [ok |-> TRUE, value |-> "result", sync |-> FALSE]

processTask(a, task) ==
  IF task.type \notin Handlers[a]
    THEN [ok |-> FALSE, value |-> "Unknown task type", sync |-> TRUE]
    ELSE IF task.data = "invalid"
      THEN [ok |-> FALSE, value |-> "handler error", sync |-> FALSE]
      ELSE [ok |-> TRUE, value |-> "result", sync |-> FALSE]

\* The continuation of processNextTask after the handler of `task` settled:
\* the rest of the try block, or the catch block.
\* st = [name, ag, tasks]: the agent's name, its fields and the task objects.
settle(st, task) ==
  LET out == processTask(st.name, st.tasks[task])
      ag0 == [st.ag EXCEPT !.inflight = @ \ {task}]
      t0  == [st.tasks[task] EXCEPT !.completedAt = "set"]
  IN  IF out.ok
        THEN
          LET ag1 == [ag0 EXCEPT !.metrics = countSuccess(@)]
              ag2 == log(ag1, "info", "Task completed successfully", task)
          IN  [st EXCEPT !.ag = scheduleNext([ag2 EXCEPT !.progress = 100]),
                         !.tasks[task] = recordSuccess(t0, out.value)]
        ELSE
          LET ag1 == [ag0 EXCEPT !.metrics = countFailure(@)]
              ag2 == log(ag1, "error", "Task failed", task)
          IN  [st EXCEPT !.ag = scheduleRecovery([ag2 EXCEPT !.status = "error",
                                                             !.progress = 0]),
                         !.tasks[task] = recordFailure(t0, out.value)]

\* BaseAgent.processNextTask up to the point where it yields to the event
\* loop: its return when the queue is empty, its suspension at the await
\* when the handler is still running, its end when the handler's promise was
\* already settled.
processNextTask_skipsProcessing(st) ==
  IF Len(st.ag.taskQueue) = 0
    THEN [st EXCEPT !.ag.status = "idle",
                    !.ag.currentTask = "Ready",
                    !.ag.progress = 0]
    ELSE
      LET task == shift(st.ag.taskQueue).task
          ag1  == [st.ag EXCEPT !.taskQueue = shift(@).rest,
                                !.status = "processing",
                                !.currentTask = "Processing",
                                !.progress = 25,
                                !.inflight = @ \cup {task}]
          st1  == [st EXCEPT !.ag = log(ag1, "info", "Starting task", task)]
      IN  IF processTask(st.name, st.tasks[task]).sync
            THEN settle(st1, task)
            ELSE st1

processNextTask(st) ==
  IF Len(st.ag.taskQueue) = 0
    THEN [st EXCEPT !.ag.status = "idle",
                    !.ag.currentTask = "Ready",
                    !.ag.progress = 0]
    ELSE
      LET task == shift(st.ag.taskQueue).task
          ag1  == [st.ag EXCEPT !.taskQueue = shift(@).rest,
                                !.status = "processing",
                                !.currentTask = "Processing",
                                !.progress = 25,
                                !.inflight = @ \cup {task}]
          st1  == [st EXCEPT !.ag = log(ag1, "info", "Starting task", task),
                             !.tasks[task].status = "processing",
                             !.tasks[task].startedAt = "set"]
      IN  IF processTask(st.name, st.tasks[task]).sync
            THEN settle(st1, task)
            ELSE st1

\* BaseAgent.addTask up to the point where it yields to the event loop.
addTask(st, task) ==
  LET ag1 == log([st.ag EXCEPT !.taskQueue = Append(@, task)],
                 "info", "Task added to queue", task)
      st1 == [st EXCEPT !.ag = ag1]
  IN  IF entersDrain(ag1) THEN processNextTask(st1) ELSE st1

\* ---------------------------------------------------------- AgentManager
QueueInit ==
  /\ agents = [a \in Agents |-> NewAgent]
  /\ tasks = <<>>
  /\ taskCounter = 0
  /\ calls = <<>>

\* submitTask(agentName, taskType, data) with an unregistered name: throws.
\* limit bounds the number of calls the environment makes.
SubmitUnknownAgent(limit, agentName) ==
  /\ Len(calls) < limit
  /\ agentsGet(agentName) = NoValue
  /\ calls' = Append(calls, [agentName |-> agentName, state |-> "rejected",
                             value |-> "Agent not found", task |-> 0,
                             awaiting |-> 0])
  /\ UNCHANGED <<agents, tasks, taskCounter>>
  /\ UNCHANGED wfVars
  /\ NoAccessorCall
  /\ NoPolicyCall

\* submitTask(agentName, taskType, data) with a registered name, run until
\* it yields to the event loop: it has returned the id when addTask did not
\* enter the drain loop or the drain step ended within the turn, and it is
\* suspended on the task whose handler it awaits otherwise.
SubmitTask(limit, agentName, taskType, data) ==
  /\ Len(calls) < limit
  /\ agentsGet(agentName) # NoValue
  /\ LET agent  == agentsGet(agentName)
         taskId == taskCounter + 1
         task   == [id |-> taskId, type |-> taskType, data |-> data,
                    priority |-> 1, status |-> "pending",
                    startedAt |-> NoValue, completedAt |-> NoValue,
                    result |-> NoValue, error |-> NoValue,
                    owner |-> agent]
         st0    == [name |-> agent, ag |-> agents[agent],
                    tasks |-> Append(tasks, task)]
         st1    == addTask(st0, taskId)
         started == st1.ag.inflight \ agents[agent].inflight
     IN  /\ taskCounter' = taskId
         /\ agents' = [agents EXCEPT ![agent] = st1.ag]
         /\ tasks' = st1.tasks
         /\ calls' = Append(calls,
              IF started = {}
                THEN [agentName |-> agentName, state |-> "resolved",
                      value |-> "task id", task |-> taskId, awaiting |-> 0]
                ELSE [agentName |-> agentName, state |-> "suspended",
                      value |-> NoValue, task |-> taskId,
                      awaiting |-> CHOOSE t \in started : TRUE])
  /\ UNCHANGED wfVars
  /\ NoAccessorCall
  /\ NoPolicyCall

\* The promise chain processNextTask -> addTask -> submitTask: the calls
\* suspended on `task` resume and return their task id.
ResumeCalls(cs, task) ==
  [i \in DOMAIN cs |->
     IF cs[i].state = "suspended" /\ cs[i].awaiting = task
       THEN [cs[i] EXCEPT !.state = "resolved", !.value = "task id",
                          !.awaiting = 0]
       ELSE cs[i]]

\* The handler of an in-flight task settles (returns or throws) and
\* processNextTask runs to its end.
HandlerSettles(a, task) ==
  /\ task \in agents[a].inflight
  /\ LET st1 == settle([name |-> a, ag |-> agents[a], tasks |-> tasks], task)
     IN  /\ agents' = [agents EXCEPT ![a] = st1.ag]
         /\ tasks' = st1.tasks
  /\ calls' = ResumeCalls(calls, task)
  /\ UNCHANGED taskCounter
  /\ UNCHANGED wfVars
  /\ NoAccessorCall
  /\ NoPolicyCall

\* setTimeout(() => this.processNextTask(), 1000) fires.
PauseTimerFires(a) ==
  /\ agents[a].timersNext > 0
  /\ LET st0 == [name |-> a, ag |-> [agents[a] EXCEPT !.timersNext = @ - 1],
                 tasks |-> tasks]
         st1 == processNextTask(st0)
     IN  /\ agents' = [agents EXCEPT ![a] = st1.ag]
         /\ tasks' = st1.tasks
  /\ UNCHANGED <<taskCounter, calls>>
  /\ UNCHANGED wfVars
  /\ NoAccessorCall
  /\ NoPolicyCall

\* setTimeout(() => { this.status = 'idle'; this.processNextTask(); }, 5000)
\* fires.
RecoveryTimerFires_resetsAll(a) ==
  /\ agents[a].timersRecover > 0
  /\ LET st0 == [name |-> a,
                 ag |-> [agents[a] EXCEPT !.timersRecover = @ - 1,
                                          !.status = "idle"],
                 tasks |-> tasks]
         st1 == processNextTask(st0)
     IN  /\ agents' = [b \in Agents |->
                         IF b = a THEN st1.ag
                         ELSE [agents[b] EXCEPT !.status = "idle"]]
         /\ tasks' = st1.tasks
  /\ UNCHANGED <<taskCounter, calls>>
  /\ UNCHANGED wfVars
  /\ NoAccessorCall
  /\ NoPolicyCall

RecoveryTimerFires(a) ==
  /\ agents[a].timersRecover > 0
  /\ LET st0 == [name |-> a,
                 ag |-> [agents[a] EXCEPT !.timersRecover = @ - 1,
                                          !.status = "idle"],
                 tasks |-> tasks]
         st1 == processNextTask(st0)
     IN  /\ agents' = [agents EXCEPT ![a] = st1.ag]
         /\ tasks' = st1.tasks
  /\ UNCHANGED <<taskCounter, calls>>
  /\ UNCHANGED wfVars
  /\ NoAccessorCall
  /\ NoPolicyCall

\* -------------------------------------------------------- SupervisorAgent
\* The names given a health entry by initializeHealthMonitoring.
HealthAgents == {"parser", "cleaner", "labeler", "reviewer", "trainer"}

\* The registry built by initializeWorkflows.
Workflows ==
  [data_processing |->
     [name |-> "Data Processing Pipeline",
      steps |-> <<"parser", "cleaner", "labeler", "reviewer">>,
      parallel |-> FALSE, retryOnFailure |-> TRUE],
   quality_assurance |->
     [name |-> "Quality Assurance Pipeline",
      steps |-> <<"reviewer", "trainer">>,
      parallel |-> TRUE, retryOnFailure |-> FALSE]]

\* Workflow names and input data the environment passes.
WorkflowNames == {"data_processing", "quality_assurance", "unregistered"}
WorkflowInputs == {[rows |-> "X"]}

\* The environment starts orchestrations 1 s after or 1 s before a health
\* check (offsets within the health-check period).
StartPhases == {1000, HealthCheckInterval - 1000}

NoFrame == [o |-> 0]

\* Exact fractions n/d (d > 0) in lowest terms, for errorRate and
\* avgResponseTime.
RECURSIVE GCD(_, _)
GCD(x, y) == IF y = 0 THEN x ELSE GCD(y, x % y)

Frac(n, d) == LET g == GCD(n, d) IN [n |-> n \div g, d |-> d \div g]

NewHealth(agent) ==
  [agentName |-> agent, status |-> "healthy", lastSeen |-> 0, taskCount |-> 0,
   errorRate |-> Frac(0, 1), avgResponseTime |-> Frac(InitialAvgResponseTime, 1)]

\* The health update of executeWorkflowStep after a successful step that
\* ended at t and took `duration` ms.
recordStepSuccess(h, t, duration) ==
  [h EXCEPT !.taskCount = @ + 1,
            !.lastSeen = t,
            !.avgResponseTime = Frac(@.n + duration * @.d, 2 * @.d)]

\* The health update of executeWorkflowStep's catch block.
recordStepFailure(h) ==
  [h EXCEPT !.errorRate = Frac(@.n * h.taskCount + @.d, @.d * (h.taskCount + 1)),
            !.taskCount = @ + 1]

\* performHealthChecks on one entry at time t.
checkHealth_errorRateFirst(h, t) ==
  [h EXCEPT !.status =
     IF h.errorRate.n * 10 > 2 * h.errorRate.d THEN "degraded"
     ELSE IF t - h.lastSeen > HealthCheckInterval * 3 THEN "unhealthy"
     ELSE "healthy"]

checkHealth(h, t) ==
  [h EXCEPT !.status =
     IF t - h.lastSeen > HealthCheckInterval * 3 THEN "unhealthy"
     ELSE IF h.errorRate.n * 10 > 2 * h.errorRate.d THEN "degraded"
     ELSE "healthy"]

\* executeWorkflowStep up to its await or its throw.  x = [orch, health].
beginStep_noPreflight(x, agentName, inputData, t) ==
  LET stepExecution == [agent |-> agentName, startTime |-> t,
                        status |-> "running", inputData |-> inputData,
                        result |-> NoValue, error |-> NoValue,
                        endTime |-> NoValue]
  IN  [orch |-> [x.orch EXCEPT !.steps = Append(@, stepExecution)],
       health |-> x.health, thrown |-> FALSE, step |-> Len(x.orch.steps) + 1]

beginStep(x, agentName, inputData, t) ==
  LET stepExecution == [agent |-> agentName, startTime |-> t,
                        status |-> "running", inputData |-> inputData,
                        result |-> NoValue, error |-> NoValue,
                        endTime |-> NoValue]
      idx == Len(x.orch.steps) + 1
      o1  == [x.orch EXCEPT !.steps = Append(@, stepExecution)]
  IN  IF agentName \notin DOMAIN x.health
           \/ x.health[agentName].status = "unhealthy"
        THEN [orch   |-> [o1 EXCEPT !.steps[idx].status = "failed",
                                    !.steps[idx].error = "Agent is unhealthy",
                                    !.steps[idx].endTime = t],
              health |-> IF agentName \in DOMAIN x.health
                           THEN [x.health EXCEPT ![agentName] = recordStepFailure(@)]
                           ELSE x.health,
              thrown |-> TRUE, step |-> idx]
        ELSE [orch |-> o1, health |-> x.health, thrown |-> FALSE, step |-> idx]

\* executeWorkflowStep after its await: the mock result and the health
\* update.  x = [orch, health]; idx is the step record's place in orch.steps.
finishStep(x, idx, t) ==
  LET step   == x.orch.steps[idx]
      result == [processed |-> TRUE, agent |-> step.agent, timestamp |-> t,
                 data |-> step.inputData]
  IN  [orch   |-> [x.orch EXCEPT !.steps[idx].result = result,
                                 !.steps[idx].status = "completed",
                                 !.steps[idx].endTime = t],
       health |-> [x.health EXCEPT ![step.agent] =
                     recordStepSuccess(@, t, t - step.startTime)],
       result |-> result]

\* orchestration.results[step] = value
setResult(results, step, value) ==
  [k \in DOMAIN results \cup {step} |-> IF k = step THEN value ELSE results[k]]

\* The end of orchestrateWorkflow's try block: status and end time.
finalize_failedOnErrors(o, t) ==
  [o EXCEPT !.status = IF Len(o.errors) > 0 THEN "failed" ELSE "completed",
            !.endTime = t]

finalize(o, t) ==
  [o EXCEPT !.status = IF Len(o.errors) > 0 THEN "completed_with_errors"
                       ELSE "completed",
            !.endTime = t]

\* orchestrateWorkflow's catch block (it rethrows).
failOrchestration_withErrors(o, message, t) ==
  [o EXCEPT !.status = "completed_with_errors",
            !.endTime = t,
            !.errors = Append(@, [step |-> "orchestration", error |-> message])]

failOrchestration(o, message, t) ==
  [o EXCEPT !.status = "failed",
            !.endTime = t,
            !.errors = Append(@, [step |-> "orchestration", error |-> message])]

\* currentData = result: what the sequential loop passes to the next step.
nextStepInput_original(inputData, result) ==
  inputData

nextStepInput(inputData, result) ==
  result

\* The sequential loop of orchestrateWorkflow from its k-th step on, until
\* the step suspends, throws, or the loop ends.  x = [orch, health].
\* outcome: "suspended" | "returned" | "thrown".
runSequential(x, steps, k, currentData, t) ==
  IF k > Len(steps)
    THEN [orch |-> finalize(x.orch, t), health |-> x.health,
          outcome |-> "returned", k |-> k, settled |-> <<>>, timers |-> {}]
    ELSE
      LET b == beginStep(x, steps[k], currentData, t)
      IN  IF b.thrown
            THEN [orch |-> failOrchestration(b.orch, "Agent is unhealthy", t),
                  health |-> b.health, outcome |-> "thrown", k |-> k,
                  settled |-> <<>>, timers |-> {}]
            ELSE [orch |-> b.orch, health |-> b.health,
                  outcome |-> "suspended", k |-> k, settled |-> <<>>,
                  timers |-> {[step |-> b.step, due |-> t + StepDelay]}]

\* workflow.steps.map(async step => executeWorkflowStep(step, inputData, ..)):
\* every step is begun in order with the workflow's input.
\* settled[i] is the state of the i-th promise.
RECURSIVE beginAll(_, _, _, _, _, _, _)
beginAll(x, steps, i, inputData, t, settled, timers) ==
  IF i > Len(steps)
    THEN [orch |-> x.orch, health |-> x.health, settled |-> settled,
          timers |-> timers]
    ELSE
      LET b == beginStep(x, steps[i], inputData, t)
      IN  beginAll([orch |-> b.orch, health |-> b.health], steps, i + 1,
                   inputData, t,
                   Append(settled,
                          IF b.thrown
                            THEN [status |-> "rejected",
                                  value |-> "Agent is unhealthy"]
                            ELSE [status |-> "pending", value |-> NoValue]),
                   IF b.thrown THEN timers
                   ELSE timers \cup {[step |-> b.step, due |-> t + StepDelay]})

\* results.forEach of the parallel branch, from index i on.
RECURSIVE collect(_, _, _, _)
collect(o, steps, settled, i) ==
  IF i > Len(steps) THEN o
  ELSE collect(
         IF settled[i].status = "fulfilled"
           THEN [o EXCEPT !.results = setResult(@, steps[i], settled[i].value)]
           ELSE [o EXCEPT !.errors = Append(@, [step |-> steps[i],
                                                error |-> settled[i].value])],
         steps, settled, i + 1)

\* The parallel branch after a turn: still waiting for a promise, or
\* Promise.allSettled resolves, the outcomes are collected and the
\* orchestration is finalized.  x = [orch, health].
parallelTurn_failFast(x, steps, settled, timers, t) ==
  IF \E i \in DOMAIN settled : settled[i].status = "rejected"
    THEN [orch |-> failOrchestration(x.orch, "Agent is unhealthy", t),
          health |-> x.health, outcome |-> "thrown", k |-> 0,
          settled |-> settled, timers |-> timers]
    ELSE IF \A i \in DOMAIN settled : settled[i].status # "pending"
      THEN [orch |-> finalize(collect(x.orch, steps, settled, 1), t),
            health |-> x.health, outcome |-> "returned", k |-> 0,
            settled |-> settled, timers |-> timers]
      ELSE [orch |-> x.orch, health |-> x.health, outcome |-> "suspended",
            k |-> 0, settled |-> settled, timers |-> timers]

parallelTurn(x, steps, settled, timers, t) ==
  IF \A i \in DOMAIN settled : settled[i].status # "pending"
    THEN [orch |-> finalize(collect(x.orch, steps, settled, 1), t),
          health |-> x.health, outcome |-> "returned", k |-> 0,
          settled |-> settled, timers |-> timers]
    ELSE [orch |-> x.orch, health |-> x.health, outcome |-> "suspended",
          k |-> 0, settled |-> settled, timers |-> timers]

\* Start instants allowed to the environment, and the first one after t.
IsStartInstant(t) == (t % HealthCheckInterval) \in StartPhases

NextStartInstant(t) ==
  LET base == (t \div HealthCheckInterval) * HealthCheckInterval
      cand == {base + p : p \in StartPhases}
                \cup {base + HealthCheckInterval + p : p \in StartPhases}
      later == {c \in cand : c > t}
  IN  CHOOSE c \in later : \A d \in later : c <= d

WfInit ==
  /\ now = 0
  /\ nextHealthCheck = HealthCheckInterval
  /\ agentHealth = [a \in HealthAgents |-> NewHealth(a)]
  /\ orchs = <<>>
  /\ taskRegistry = <<>>
  /\ frame = NoFrame
  /\ stepTimers = {}
  /\ wfCalls = <<>>

Init == QueueInit /\ WfInit /\ AccessInit /\ PolicyInit

\* The environment may call orchestrateWorkflow now: the supervisor's drain
\* loop is not inside another orchestration, and this is a start instant not
\* used yet.
MayStart(limit) ==
  /\ frame = NoFrame
  /\ Len(wfCalls) < limit
  /\ IsStartInstant(now)
  /\ \A i \in DOMAIN wfCalls :
       /\ wfCalls[i].at < now
       /\ wfCalls[i].o # 0 =>
            now >= orchs[wfCalls[i].o].endTime
                     + (IF wfCalls[i].state = "thrown" THEN RecoveryDelay
                        ELSE NextTaskDelay)

\* orchestrateWorkflow with a name that is not registered: throws.
StartUnknownWorkflow_registers(limit, workflowName, inputData) ==
  /\ MayStart(limit)
  /\ workflowName \notin DOMAIN Workflows
  /\ orchs' = Append(orchs,
       [workflowId |-> now, name |-> workflowName, startTime |-> now,
        status |-> "failed", steps |-> <<>>, results |-> <<>>,
        errors |-> <<>>, endTime |-> now])
  /\ taskRegistry' =
       [id \in DOMAIN taskRegistry \cup {now} |->
          IF id = now THEN Len(orchs) + 1 ELSE taskRegistry[id]]
  /\ wfCalls' = Append(wfCalls, [workflowName |-> workflowName,
                                 inputData |-> inputData, at |-> now,
                                 state |-> "thrown",
                                 value |-> "Workflow not found", o |-> 0])
  /\ UNCHANGED <<now, nextHealthCheck, agentHealth, frame, stepTimers>>
  /\ UNCHANGED queueVars
  /\ NoAccessorCall
  /\ NoPolicyCall

StartUnknownWorkflow(limit, workflowName, inputData) ==
  /\ MayStart(limit)
  /\ workflowName \notin DOMAIN Workflows
  /\ wfCalls' = Append(wfCalls, [workflowName |-> workflowName,
                                 inputData |-> inputData, at |-> now,
                                 state |-> "thrown",
                                 value |-> "Workflow not found", o |-> 0])
  /\ UNCHANGED <<now, nextHealthCheck, agentHealth, orchs, taskRegistry,
                 frame, stepTimers>>
  /\ UNCHANGED queueVars
  /\ NoAccessorCall
  /\ NoPolicyCall

\* The state of an orchestrateWorkflow call after a turn with outcome r:
\* running, returned (the orchestration record, c.o in orchs), or thrown.
callAfter_returnsRecord(c, r) ==
  [c EXCEPT !.state = IF r.outcome = "suspended" THEN "running" ELSE "returned",
            !.value = IF r.outcome = "suspended" THEN NoValue
                      ELSE "orchestration"]

callAfter(c, r) ==
  [c EXCEPT !.state = IF r.outcome = "suspended" THEN "running" ELSE r.outcome,
            !.value = IF r.outcome = "returned" THEN "orchestration"
                      ELSE IF r.outcome = "thrown" THEN "Agent is unhealthy"
                      ELSE NoValue]

\* orchestrateWorkflow(data) with a registered name, up to its first
\* suspension (or its end, when no step had to wait).
StartWorkflow(limit, workflowName, inputData) ==
  /\ MayStart(limit)
  /\ workflowName \in DOMAIN Workflows
  /\ LET workflow == Workflows[workflowName]
         o        == Len(orchs) + 1
         call     == Len(wfCalls) + 1
         orchestration ==
           [workflowId |-> now, name |-> workflowName, startTime |-> now,
            status |-> "running", steps |-> <<>>, results |-> <<>>,
            errors |-> <<>>, endTime |-> NoValue]
         x0 == [orch |-> orchestration, health |-> agentHealth]
         r  == IF workflow.parallel
                 THEN LET b == beginAll(x0, workflow.steps, 1, inputData, now,
                                        <<>>, {})
                      IN  parallelTurn(b, workflow.steps, b.settled, b.timers, now)
                 ELSE runSequential(x0, workflow.steps, 1, inputData, now)
     IN  /\ taskRegistry' =
              [id \in DOMAIN taskRegistry \cup {now} |->
                 IF id = now THEN o ELSE taskRegistry[id]]
         /\ orchs' = Append(orchs, r.orch)
         /\ agentHealth' = r.health
         /\ stepTimers' = stepTimers \cup r.timers
         /\ frame' = IF r.outcome = "suspended"
                       THEN [o |-> o, call |-> call,
                             parallel |-> workflow.parallel,
                             k |-> r.k, settled |-> r.settled]
                       ELSE NoFrame
         /\ wfCalls' = Append(wfCalls,
              callAfter([workflowName |-> workflowName, inputData |-> inputData,
                         at |-> now, state |-> "running", value |-> NoValue,
                         o |-> o], r))
  /\ UNCHANGED <<now, nextHealthCheck>>
  /\ UNCHANGED queueVars
  /\ NoAccessorCall
  /\ NoPolicyCall

\* A simulateProcessing timer of a workflow step fires: the step ends, and
\* orchestrateWorkflow goes on to the next step or to its end.
StepCompletes(timer) ==
  /\ timer \in stepTimers
  /\ timer.due = now
  /\ frame # NoFrame
  /\ LET o     == frame.o
         steps == Workflows[orchs[o].name].steps
         f     == finishStep([orch |-> orchs[o], health |-> agentHealth],
                             timer.step, now)
         r     == IF frame.parallel
                    THEN parallelTurn(f, steps,
                           [frame.settled EXCEPT ![timer.step] =
                              [status |-> "fulfilled", value |-> f.result]],
                           {}, now)
                    ELSE runSequential(
                           [orch |-> [f.orch EXCEPT !.results =
                                        setResult(@, steps[frame.k], f.result)],
                            health |-> f.health],
                           steps, frame.k + 1,
                           nextStepInput(wfCalls[frame.call].inputData, f.result),
                           now)
     IN  /\ orchs' = [orchs EXCEPT ![o] = r.orch]
         /\ agentHealth' = r.health
         /\ stepTimers' = (stepTimers \ {timer}) \cup r.timers
         /\ frame' = IF r.outcome = "suspended"
                       THEN [frame EXCEPT !.k = r.k, !.settled = r.settled]
                       ELSE NoFrame
         /\ wfCalls' = [wfCalls EXCEPT ![frame.call] = callAfter(@, r)]
  /\ UNCHANGED <<now, nextHealthCheck, taskRegistry>>
  /\ UNCHANGED queueVars
  /\ NoAccessorCall
  /\ NoPolicyCall

\* The setInterval callback: performHealthChecks.
HealthCheck_touches ==
  /\ nextHealthCheck = now
  /\ agentHealth' = [a \in DOMAIN agentHealth |->
                       [checkHealth(agentHealth[a], now) EXCEPT !.lastSeen = now]]
  /\ nextHealthCheck' = now + HealthCheckInterval
  /\ UNCHANGED <<now, orchs, taskRegistry, frame, stepTimers, wfCalls>>
  /\ UNCHANGED queueVars
  /\ NoAccessorCall
  /\ NoPolicyCall

HealthCheck ==
  /\ nextHealthCheck = now
  /\ agentHealth' = [a \in DOMAIN agentHealth |-> checkHealth(agentHealth[a], now)]
  /\ nextHealthCheck' = now + HealthCheckInterval
  /\ UNCHANGED <<now, orchs, taskRegistry, frame, stepTimers, wfCalls>>
  /\ UNCHANGED queueVars
  /\ NoAccessorCall
  /\ NoPolicyCall

\* Time passes, up to the next timer deadline or start instant; every timer
\* due now has fired.
Advance ==
  /\ nextHealthCheck > now
  /\ \A tm \in stepTimers : tm.due > now
  /\ LET cand == {nextHealthCheck, NextStartInstant(now)}
                   \cup {tm.due : tm \in stepTimers}
         next == CHOOSE c \in cand : \A d \in cand : c <= d
     IN  /\ next <= MaxTime
         /\ now' = next
  /\ UNCHANGED <<nextHealthCheck, agentHealth, orchs, taskRegistry, frame,
                 stepTimers, wfCalls>>
  /\ UNCHANGED queueVars
  /\ NoAccessorCall
  /\ NoPolicyCall

\* The environment makes at most `limit` orchestrateWorkflow calls.
WfNextWithin(limit) ==
  \/ \E n \in WorkflowNames, x \in WorkflowInputs :
       StartUnknownWorkflow(limit, n, x)
  \/ \E n \in WorkflowNames, x \in WorkflowInputs : StartWorkflow(limit, n, x)
  \/ \E tm \in stepTimers : StepCompletes(tm)
  \/ HealthCheck
  \/ Advance

WfNext == WfNextWithin(MaxRuns)

SpecWf == Init /\ [][WfNext]_vars

\* Runs of three orchestrations: long enough for a step to succeed for an
\* agent that has failed a step before.
WfNextLong == WfNextWithin(MaxLongRuns)

SpecWfLong == Init /\ [][WfNextLong]_vars

\* ------------------------------------------------- AgentManager accessors
\* Array.prototype.slice(start): from index start, counted from the end when
\* start is negative (-0 is 0: the whole array).
slice(s, start) ==
  LET len == Len(s)
      k   == IF start < 0 THEN (IF len + start > 0 THEN len + start ELSE 0)
             ELSE (IF start < len THEN start ELSE len)
  IN  SubSeq(s, k + 1, len)

\* Array.prototype.reverse()
reverse(s) == [i \in 1..Len(s) |-> s[Len(s) + 1 - i]]

\* BaseAgent.getLogs(limit): this.logs.slice(-limit).reverse()
getLogs(ag, limit) == reverse(slice(ag.logs, 0 - limit))

\* BaseAgent.getStatus()
getStatus(a) ==
  [name |-> DisplayName[a], status |-> agents[a].status,
   task |-> agents[a].currentTask, progress |-> agents[a].progress,
   queueLength |-> Len(agents[a].taskQueue), metrics |-> agents[a].metrics]

\* BaseAgent.getConfiguration()
getConfiguration(a) ==
  [name |-> DisplayName[a], settings |-> settings[a],
   capabilities |-> Capabilities[a]]

\* { ...this.settings, ...config }
spread(old, config) ==
  [k \in DOMAIN old \cup DOMAIN config |->
     IF k \in DOMAIN config THEN config[k] ELSE old[k]]

\* AgentManager.getAgentStatus: the agent's status, or null.
getAgentStatus_throws(agentName) ==
  IF agentsGet(agentName) # NoValue
    THEN [outcome |-> "returned", kind |-> "value", value |-> getStatus(agentName)]
    ELSE [outcome |-> "thrown", kind |-> "error", error |-> "Agent not found"]

getAgentStatus(agentName) ==
  IF agentsGet(agentName) # NoValue
    THEN [outcome |-> "returned", kind |-> "value", value |-> getStatus(agentName)]
    ELSE [outcome |-> "returned", kind |-> "null"]

\* AgentManager.getAgentLogs: the agent's logs, or [].
getAgentLogs(agentName, limit) ==
  IF agentsGet(agentName) # NoValue
    THEN [outcome |-> "returned", kind |-> "value",
          value |-> getLogs(agents[agentName], limit)]
    ELSE [outcome |-> "returned", kind |-> "value", value |-> <<>>]

\* AgentManager.getAgentConfiguration: the agent's configuration, or null.
getAgentConfiguration(agentName) ==
  IF agentsGet(agentName) # NoValue
    THEN [outcome |-> "returned", kind |-> "value",
          value |-> getConfiguration(agentName)]
    ELSE [outcome |-> "returned", kind |-> "null"]

\* Limits and configurations the environment passes.
Limits == 0..MaxLimit \cup {DefaultLimit}

Configs == {[csvDelimiter |-> ";"]}

\* The call as the caller sees it: operation, arguments, outcome.
called(op, agentName, arg, r) ==
  [op |-> op, agentName |-> agentName, arg |-> arg] @@ r

GetAgentStatus(agentName) ==
  /\ reply' = called("getAgentStatus", agentName, NoValue,
                     getAgentStatus(agentName))
  /\ UNCHANGED <<settings, queueVars, wfVars, policyVars>>

GetAgentLogs(agentName, limit) ==
  /\ reply' = [op |-> "getAgentLogs", agentName |-> agentName, limit |-> limit]
                 @@ getAgentLogs(agentName, limit)
  /\ UNCHANGED <<settings, queueVars, wfVars, policyVars>>

GetAgentConfiguration(agentName) ==
  /\ reply' = called("getAgentConfiguration", agentName, NoValue,
                     getAgentConfiguration(agentName))
  /\ UNCHANGED <<settings, queueVars, wfVars, policyVars>>

\* AgentManager.updateAgentConfiguration: throws for an unregistered name,
\* else the agent's updateConfiguration merges config into its settings and
\* logs.
UpdateAgentConfiguration(agentName, config) ==
  /\ IF agentsGet(agentName) = NoValue
       THEN /\ reply' = called("updateAgentConfiguration", agentName, config,
                               [outcome |-> "thrown", kind |-> "error",
                                error |-> "Agent not found"])
            /\ UNCHANGED <<settings, agents>>
       ELSE /\ agents[agentName].logCount < MaxLogCount
            /\ settings' = [settings EXCEPT ![agentName] = spread(@, config)]
            /\ agents' = [agents EXCEPT ![agentName] =
                            log(@, "info", "Configuration updated", config)]
            /\ reply' = called("updateAgentConfiguration", agentName, config,
                               [outcome |-> "returned", kind |-> "void"])
  /\ UNCHANGED <<tasks, taskCounter, calls>>
  /\ UNCHANGED <<wfVars, policyVars>>

AccessNext ==
  \/ \E n \in AgentNames : GetAgentStatus(n)
  \/ \E n \in AgentNames, limit \in Limits : GetAgentLogs(n, limit)
  \/ \E n \in AgentNames : GetAgentConfiguration(n)
  \/ \E n \in AgentNames, c \in Configs : UpdateAgentConfiguration(n, c)

\* The steps of the agents themselves.
Internal ==
  \/ \E a \in Agents, t \in DOMAIN tasks : HandlerSettles(a, t)
  \/ \E a \in Agents : PauseTimerFires(a)
  \/ \E a \in Agents : RecoveryTimerFires(a)

\* The environment makes at most `limit` submitTask calls.
NextWithin(limit) ==
  \/ \E n \in AgentNames : SubmitUnknownAgent(limit, n)
  \/ \E n \in AgentNames, ty \in TaskTypes, d \in Payloads :
       SubmitTask(limit, n, ty, d)
  \/ Internal

Next == NextWithin(MaxCalls)

Spec == Init /\ [][Next]_vars

\* The event loop runs every ready continuation and every due timer, and
\* every handler settles: weak fairness of the three internal steps of each
\* agent.  Submissions are the environment's and carry no fairness.
Fairness ==
  \A a \in Agents :
    /\ WF_vars(\E t \in DOMAIN tasks : HandlerSettles(a, t))
    /\ WF_vars(PauseTimerFires(a))
    /\ WF_vars(RecoveryTimerFires(a))

NextFair == NextWithin(MaxFairCalls)

SpecFair == Init /\ [][NextFair]_vars /\ Fairness

\* A run of log calls on one agent, for the ring buffer of BaseAgent.log.
LogAppend(a, level) ==
  /\ agents[a].logCount < MaxAppends
  /\ agents' = [agents EXCEPT ![a] = log(@, level, "message", NoValue)]
  /\ UNCHANGED <<tasks, taskCounter, calls>>
  /\ UNCHANGED wfVars
  /\ NoAccessorCall
  /\ NoPolicyCall

LogNext == LogAppend("parser", "info")

SpecLog == Init /\ [][LogNext]_vars

\* The accessors next to a bounded run of the queues.
NextAccess == NextWithin(MaxAccessCalls) \/ AccessNext

SpecAccess == Init /\ [][NextAccess]_vars

\* ------------------------------------- SupervisorAgent: load and failures
\* The agent names the environment passes as targetAgents.
TargetNames == {"parser", "cleaner"}

\* The task lists the environment passes to balanceLoad: task i is the
\* number i.
TaskLists == {[i \in 1..n |-> i] : n \in 0..MaxTasks}

TargetLists == UNION {[1..n -> TargetNames] : n \in 0..MaxTargets}

\* A failed task as the environment passes it: r < 0 stands for a task object
\* without a retryCount field.
FailedTask(i, r) ==
  IF r < 0 THEN [id |-> i] ELSE [id |-> i, retryCount |-> r]

FailedLists ==
  UNION {{[i \in 1..n |-> FailedTask(i, rs[i])] : rs \in [1..n -> -1..MaxRetryCount]} :
           n \in 0..MaxFailed}

RetryStrategies == {"exponential"}

\* The partial settings the environment passes to updateConfiguration.
SupervisorConfigs ==
  {[loadBalancingEnabled |-> FALSE], [autoRetryFailedTasks |-> FALSE],
   [maxRetryAttempts |-> 1]}

\* Map.prototype.set, the map held as its entries in insertion order: a key
\* that is present keeps its place and takes the new value.
mapSet(m, k, v) ==
  IF \E i \in 1..Len(m) : m[i].key = k
    THEN [i \in 1..Len(m) |->
            IF m[i].key = k THEN [key |-> k, value |-> v] ELSE m[i]]
    ELSE Append(m, [key |-> k, value |-> v])

\* Math.ceil(n / d) for d > 0.
ceil(n, d) == (n + d - 1) \div d

min(x, y) == IF x < y THEN x ELSE y

\* s.slice(startIndex, endIndex) with 0 <= startIndex, endIndex <= length.
sliceRange(s, startIndex, endIndex) ==
  IF startIndex >= endIndex THEN <<>> ELSE SubSeq(s, startIndex + 1, endIndex)

\* Math.ceil(tasks.length / targetAgents.length); never used when there is
\* no target agent, because the forEach body does not run.
tasksPerAgent(data) ==
  IF Len(data.targetAgents) = 0 THEN 0
  ELSE ceil(Len(data.tasks), Len(data.targetAgents))

\* The forEach over targetAgents from position `index` (0-based) on.
RECURSIVE distribute(_, _, _)
distribute(data, index, assignments) ==
  IF index >= Len(data.targetAgents) THEN assignments
  ELSE LET startIndex == index * tasksPerAgent(data)
           endIndex   == min(startIndex + tasksPerAgent(data), Len(data.tasks))
           assignedTasks == sliceRange(data.tasks, startIndex, endIndex)
       IN  distribute(data, index + 1,
                      mapSet(assignments, data.targetAgents[index + 1],
                             assignedTasks))

NaN == [n |-> 0, d |-> 0]

RECURSIVE maxLoad(_)
maxLoad(m) ==
  IF Len(m) = 1 THEN Len(m[1].value)
  ELSE LET r == maxLoad(Tail(m))
       IN  IF Len(m[1].value) > r THEN Len(m[1].value) ELSE r

RECURSIVE minLoad(_)
minLoad(m) ==
  IF Len(m) = 1 THEN Len(m[1].value)
  ELSE min(Len(m[1].value), minLoad(Tail(m)))

\* calculateLoadBalanceEfficiency: 1 - (maxLoad - minLoad) / maxLoad as an
\* exact fraction; of an empty map, Math.max() is -Infinity and the result NaN.
calculateLoadBalanceEfficiency(assignments) ==
  IF Len(assignments) = 0 THEN NaN
  ELSE IF maxLoad(assignments) = 0 THEN Frac(1, 1)
  ELSE Frac(maxLoad(assignments) - (maxLoad(assignments) - minLoad(assignments)),
            maxLoad(assignments))

\* What balanceLoad returns after its await.
balanceLoad(data) ==
  LET agentAssignments == distribute(data, 0, <<>>)
  IN  [totalTasks |-> Len(data.tasks),
       agentAssignments |-> agentAssignments,
       redistributed |-> 0,
       efficiency |-> calculateLoadBalanceEfficiency(agentAssignments)]

\* failedTask.retryCount || 0
retryCountOf(failedTask) ==
  IF "retryCount" \in DOMAIN failedTask THEN failedTask.retryCount ELSE 0

\* The body of the loop of handleFailures for one failed task.
classify_uptoLimit(failureHandling, failedTask, retryStrategy, s) ==
  IF s.autoRetryFailedTasks /\ retryCountOf(failedTask) <= s.maxRetryAttempts
    THEN [failureHandling EXCEPT
            !.retriedTasks = Append(@, [taskId |-> failedTask.id,
                                        retryCount |-> retryCountOf(failedTask) + 1,
                                        retryStrategy |-> retryStrategy]),
            !.recoveryActions = Append(@, [action |-> "retry",
                                           taskId |-> failedTask.id,
                                           reason |-> "Within retry limit"])]
    ELSE [failureHandling EXCEPT
            !.permanentFailures = Append(@, failedTask),
            !.recoveryActions = Append(@, [action |-> "escalate",
                                           taskId |-> failedTask.id,
                                           reason |-> "Max retries exceeded"])]

classify(failureHandling, failedTask, retryStrategy, s) ==
  IF s.autoRetryFailedTasks /\ retryCountOf(failedTask) < s.maxRetryAttempts
    THEN [failureHandling EXCEPT
            !.retriedTasks = Append(@, [taskId |-> failedTask.id,
                                        retryCount |-> retryCountOf(failedTask) + 1,
                                        retryStrategy |-> retryStrategy]),
            !.recoveryActions = Append(@, [action |-> "retry",
                                           taskId |-> failedTask.id,
                                           reason |-> "Within retry limit"])]
    ELSE [failureHandling EXCEPT
            !.permanentFailures = Append(@, failedTask),
            !.recoveryActions = Append(@, [action |-> "escalate",
                                           taskId |-> failedTask.id,
                                           reason |-> "Max retries exceeded"])]

\* The for-of loop over failedTasks from position i (1-based) on.
RECURSIVE classifyAll(_, _, _, _)
classifyAll(failureHandling, data, i, s) ==
  IF i > Len(data.failedTasks) THEN failureHandling
  ELSE classifyAll(classify(failureHandling, data.failedTasks[i],
                            data.retryStrategy, s),
                   data, i + 1, s)

\* What handleFailures returns after its await, the settings being s then.
handleFailures(data, s) ==
  classifyAll([totalFailures |-> Len(data.failedTasks), retriedTasks |-> <<>>,
               permanentFailures |-> <<>>, recoveryActions |-> <<>>],
              data, 1, s)

\* The supervisor's drain loop runs one task at a time.
SupervisorFree == frame = NoFrame /\ policyFrame = NoPolicyFrame

\* processTask({type: 'balance_load', data}) up to its await: the disabled
\* answer at once, else the call is suspended for the processing delay.
BalanceLoad(taskList, targetAgents) ==
  LET data == [tasks |-> taskList, targetAgents |-> targetAgents]
  IN  /\ SupervisorFree
      /\ IF ~supervisorSettings.loadBalancingEnabled
           THEN /\ reply' = [op |-> "balance_load", data |-> data,
                             result |-> [message |-> "Load balancing is disabled"]]
                /\ UNCHANGED policyFrame
           ELSE /\ policyFrame' = [op |-> "balance_load", data |-> data]
                /\ reply' = NoReply
      /\ UNCHANGED <<supervisorSettings, settings, queueVars, wfVars>>

\* The processing delay of balanceLoad is over: the chunks are computed.
BalanceLoadResumes ==
  /\ policyFrame.op = "balance_load"
  /\ reply' = [op |-> "balance_load", data |-> policyFrame.data,
               result |-> balanceLoad(policyFrame.data)]
  /\ policyFrame' = NoPolicyFrame
  /\ UNCHANGED <<supervisorSettings, settings, queueVars, wfVars>>

\* processTask({type: 'handle_failures', data}) up to its await.
HandleFailures(failedTasks, retryStrategy) ==
  /\ SupervisorFree
  /\ policyFrame' = [op |-> "handle_failures",
                     data |-> [failedTasks |-> failedTasks,
                               retryStrategy |-> retryStrategy]]
  /\ reply' = NoReply
  /\ UNCHANGED <<supervisorSettings, settings, queueVars, wfVars>>

\* The processing delay of handleFailures is over: the loop runs with the
\* settings as they are now.
HandleFailuresResumes ==
  /\ policyFrame.op = "handle_failures"
  /\ reply' = [op |-> "handle_failures", data |-> policyFrame.data,
               result |-> handleFailures(policyFrame.data, supervisorSettings)]
  /\ policyFrame' = NoPolicyFrame
  /\ UNCHANGED <<supervisorSettings, settings, queueVars, wfVars>>

\* SupervisorAgent.updateConfiguration, at any time.
UpdateSupervisorConfiguration(config) ==
  /\ supervisorSettings' = spread(supervisorSettings, config)
  /\ reply' = NoReply
  /\ UNCHANGED <<policyFrame, settings, queueVars, wfVars>>

PolicyNext ==
  \/ \E taskList \in TaskLists, targetAgents \in TargetLists :
       BalanceLoad(taskList, targetAgents)
  \/ BalanceLoadResumes
  \/ \E failedTasks \in FailedLists, retryStrategy \in RetryStrategies :
       HandleFailures(failedTasks, retryStrategy)
  \/ HandleFailuresResumes
  \/ \E config \in SupervisorConfigs : UpdateSupervisorConfiguration(config)

SpecPolicy == Init /\ [][PolicyNext]_vars

\* ------------------------------------------------------------ properties
Terminal == {"completed", "failed"}

TasksOf(a) == {t \in DOMAIN tasks : tasks[t].owner = a}

Min(x, y) == IF x <= y THEN x ELSE y

\* C1: for two tasks A, B of one agent with A submitted before B (task ids
\* are handed out in submission order), B has not left 'pending' unless A is
\* completed or failed: tasks of an agent start in submission order, one
\* after the other has ended.
FifoOrder ==
  \A A \in DOMAIN tasks, B \in DOMAIN tasks :
    (A < B /\ tasks[A].owner = tasks[B].owner /\ tasks[B].status # "pending")
      => tasks[A].status \in Terminal

\* Three tasks of one agent: the first two ended, the third started.
FifoOrderWitness ==
  \E a \in Agents :
    /\ Cardinality(TasksOf(a)) = 3
    /\ \E B \in TasksOf(a) :
         /\ tasks[B].status = "processing"
         /\ \A A \in TasksOf(a) \ {B} : A < B /\ tasks[A].status \in Terminal

\* C2: every agent has at most one task in 'processing' and at most one
\* drain-loop continuation (a suspended handler await or a pending pause
\* timer) at any time.
AtMostOneInFlight ==
  \A a \in Agents :
    /\ Cardinality({t \in TasksOf(a) : tasks[t].status = "processing"}) <= 1
    /\ Cardinality(agents[a].inflight) + agents[a].timersNext
         + agents[a].timersRecover <= 1

\* A task was added during the recovery pause (the add is the latest log
\* entry, after the failure) and waits in the queue.
AtMostOneInFlightWitness ==
  \E a \in Agents :
    /\ agents[a].timersRecover = 1
    /\ agents[a].status = "error"
    /\ Len(agents[a].taskQueue) > 0
    /\ agents[a].logs[Len(agents[a].logs)].message = "Task added to queue"

\* C3: tasksProcessed = tasksSuccessful + tasksFailed in every state, and no
\* step decreases any of the three counters.
MetricsStep ==
  \A a \in Agents :
    /\ agents'[a].metrics.tasksProcessed >= agents[a].metrics.tasksProcessed
    /\ agents'[a].metrics.tasksSuccessful >= agents[a].metrics.tasksSuccessful
    /\ agents'[a].metrics.tasksFailed >= agents[a].metrics.tasksFailed

MetricsBalanced ==
  \A a \in Agents :
    agents[a].metrics.tasksProcessed
      = agents[a].metrics.tasksSuccessful + agents[a].metrics.tasksFailed

MetricsConsistent == []MetricsBalanced /\ [][MetricsStep]_vars

\* An agent that has both succeeded and failed.
MetricsConsistentWitness ==
  \E a \in Agents :
    /\ agents[a].metrics.tasksSuccessful > 0
    /\ agents[a].metrics.tasksFailed > 0

\* C4: a completed task has a result and no error, a failed task has an
\* error and no result, a pending or processing task has neither.
ResultErrorExclusive ==
  \A t \in DOMAIN tasks :
    /\ tasks[t].status = "completed"
         => (tasks[t].result # NoValue /\ tasks[t].error = NoValue)
    /\ tasks[t].status = "failed"
         => (tasks[t].error # NoValue /\ tasks[t].result = NoValue)
    /\ tasks[t].status \in {"pending", "processing"}
         => (tasks[t].result = NoValue /\ tasks[t].error = NoValue)

\* A completed task and a failed task exist side by side.
ResultErrorExclusiveWitness ==
  /\ \E t \in DOMAIN tasks : tasks[t].status = "completed"
  /\ \E t \in DOMAIN tasks : tasks[t].status = "failed"

\* C5: after N appends the buffer holds the last min(N, 1000) appended
\* entries in append order; beyond 1000 appends its first entry is the
\* (N - 1000 + 1)-th appended.
LogRingBuffer ==
  \A a \in Agents :
    LET N == agents[a].logCount
        L == agents[a].logs
    IN  /\ Len(L) = Min(N, LogCap)
        /\ \A i \in 1..Len(L) : L[i].seq = N - Len(L) + i
        /\ N > LogCap => L[1].seq = N - LogCap + 1

\* More than 1000 entries were appended to one buffer.
LogRingBufferWitness ==
  \E a \in Agents : agents[a].logCount = LogCap + 2

\* C6: a submitTask call naming an unregistered agent is rejected with the
\* agent-not-found error, and the step changes neither the task counter nor
\* the tasks nor any agent (queue, status, metrics, logs).
UnknownAgentStep ==
  \A i \in DOMAIN calls' \ DOMAIN calls :
    calls'[i].agentName \notin Agents
      => /\ calls'[i].state = "rejected"
         /\ calls'[i].value = "Agent not found"
         /\ UNCHANGED <<agents, tasks, taskCounter>>

UnknownAgentRejected == [][UnknownAgentStep]_vars

\* A call was rejected while tasks of registered agents exist.
UnknownAgentRejectedWitness ==
  /\ taskCounter > 0
  /\ \E i \in DOMAIN calls :
       calls[i].agentName \notin Agents /\ calls[i].state = "rejected"

\* C7: no submitTask call is ever left waiting for a handler: every call on
\* a registered agent has returned its id by the end of the step that made it.
SubmitNeverWaits ==
  \A i \in DOMAIN calls : calls[i].state # "suspended"

\* C8: the queues drain.  Eventually every agent stays idle with an empty
\* queue and tasksProcessed equal to the number of tasks submitted to it, and
\* every pending task eventually reaches a terminal status.
AllDrained ==
  \A a \in Agents :
    /\ agents[a].status = "idle"
    /\ agents[a].taskQueue = <<>>
    /\ agents[a].metrics.tasksProcessed = Cardinality(TasksOf(a))

QueuesDrain ==
  /\ <>[]AllDrained
  /\ \A t \in 1..MaxFairCalls :
       (t \in DOMAIN tasks /\ tasks[t].status = "pending")
         ~> (t \in DOMAIN tasks /\ tasks[t].status \in Terminal)

\* An agent is idle again after two tasks, the second of which waited in the
\* queue; one of them failed.
QueuesDrainWitness ==
  \E a \in Agents :
    /\ agents[a].status = "idle"
    /\ agents[a].taskQueue = <<>>
    /\ agents[a].metrics.tasksProcessed = 2
    /\ agents[a].metrics.tasksFailed = 1
    /\ Cardinality(TasksOf(a)) = 2

\* C9: a task whose type has no handler ends 'failed' with the unknown-type
\* message and never 'completed'; the call that submitted it is never
\* rejected and eventually resolved with the id; every task queued behind it
\* on the same agent eventually ends, and ends 'completed' when its own
\* handler succeeds.
UnknownType(t) == tasks[t].type \notin Handlers[tasks[t].owner]

UnknownTypeFails ==
  \A t \in DOMAIN tasks :
    UnknownType(t) =>
      /\ tasks[t].status # "completed"
      /\ tasks[t].status = "failed" => tasks[t].error = "Unknown task type"
      /\ \A i \in DOMAIN calls : calls[i].task = t => calls[i].state # "rejected"
      /\ \E i \in DOMAIN calls : calls[i].task = t

CallsOf(t) == {i \in DOMAIN calls : calls[i].task = t}

UnknownTypeContained ==
  /\ []UnknownTypeFails
  /\ \A t \in 1..MaxFairCalls :
       (t \in DOMAIN tasks /\ UnknownType(t))
         ~> (/\ t \in DOMAIN tasks
             /\ tasks[t].status = "failed"
             /\ \A i \in CallsOf(t) :
                  calls[i].state = "resolved" /\ calls[i].value = "task id")
  /\ \A t \in 1..MaxFairCalls, u \in 1..MaxFairCalls :
       (/\ t \in DOMAIN tasks /\ u \in DOMAIN tasks /\ t < u
        /\ UnknownType(t) /\ tasks[t].owner = tasks[u].owner)
         ~> (/\ u \in DOMAIN tasks
             /\ tasks[u].status
                  = IF processTask(tasks[u].owner, tasks[u]).ok
                      THEN "completed" ELSE "failed")

\* An unknown-type task has failed and a task queued behind it on the same
\* agent has completed.
UnknownTypeContainedWitness ==
  \E t \in DOMAIN tasks, u \in DOMAIN tasks :
    /\ t < u
    /\ tasks[t].owner = tasks[u].owner
    /\ UnknownType(t)
    /\ tasks[t].status = "failed"
    /\ tasks[u].status = "completed"

\* C10: in an execution of a non-parallel workflow the i-th step record is
\* for the workflow's i-th agent, the first step's input is the input of the
\* orchestrateWorkflow call, every later step's input is the result the step
\* before it returned, and a step is begun only when the step before it has
\* completed (at or after its end time).
SequentialCalls ==
  {c \in DOMAIN wfCalls :
     /\ wfCalls[c].workflowName \in DOMAIN Workflows
     /\ ~Workflows[wfCalls[c].workflowName].parallel}

SequentialThreading ==
  \A c \in SequentialCalls :
    LET o     == orchs[wfCalls[c].o]
        steps == Workflows[wfCalls[c].workflowName].steps
    IN  /\ Len(o.steps) <= Len(steps)
        /\ \A i \in DOMAIN o.steps :
             /\ o.steps[i].agent = steps[i]
             /\ i = 1 => o.steps[i].inputData = wfCalls[c].inputData
             /\ i > 1 =>
                  /\ o.steps[i - 1].status = "completed"
                  /\ o.steps[i].inputData = o.steps[i - 1].result
                  /\ o.steps[i].inputData # wfCalls[c].inputData
                  /\ o.steps[i].startTime >= o.steps[i - 1].endTime

\* A sequential workflow has run all its steps and returned.
SequentialThreadingWitness ==
  \E c \in SequentialCalls :
    /\ wfCalls[c].state = "returned"
    /\ Len(orchs[wfCalls[c].o].steps) = 4
    /\ orchs[wfCalls[c].o].steps[4].status = "completed"

\* C11: an execution of a parallel workflow has one step record per step of
\* the workflow, each begun with the call's input; the call never throws;
\* once it has returned, every step has ended, a completed step's result is
\* in results under its agent, a failed step has an entry in errors and none
\* in results, and the status is 'completed_with_errors' when a step failed
\* and 'completed' otherwise.
ParallelCalls ==
  {c \in DOMAIN wfCalls :
     /\ wfCalls[c].workflowName \in DOMAIN Workflows
     /\ Workflows[wfCalls[c].workflowName].parallel}

FailedSteps(o) == {i \in DOMAIN o.steps : o.steps[i].status = "failed"}

ParallelIsolation ==
  \A c \in ParallelCalls :
    LET o     == orchs[wfCalls[c].o]
        steps == Workflows[wfCalls[c].workflowName].steps
    IN  /\ wfCalls[c].state # "thrown"
        /\ o.status # "failed"
        /\ Len(o.steps) = Len(steps)
        /\ \A i \in DOMAIN o.steps :
             /\ o.steps[i].agent = steps[i]
             /\ o.steps[i].inputData = wfCalls[c].inputData
        /\ wfCalls[c].state = "returned" =>
             /\ \A i \in DOMAIN o.steps :
                  /\ o.steps[i].status \in {"completed", "failed"}
                  /\ o.steps[i].status = "completed" =>
                       /\ steps[i] \in DOMAIN o.results
                       /\ o.results[steps[i]] = o.steps[i].result
                  /\ o.steps[i].status = "failed" =>
                       /\ steps[i] \notin DOMAIN o.results
                       /\ \E e \in DOMAIN o.errors : o.errors[e].step = steps[i]
             /\ Len(o.errors) = Cardinality(FailedSteps(o))
             /\ o.status = IF FailedSteps(o) # {} THEN "completed_with_errors"
                           ELSE "completed"

\* A parallel workflow has returned with one step failed and the other
\* completed, the failed one being rejected before the other ended.
ParallelIsolationWitness ==
  \E c \in ParallelCalls :
    LET o == orchs[wfCalls[c].o]
    IN  /\ wfCalls[c].state = "returned"
        /\ \E i \in DOMAIN o.steps, j \in DOMAIN o.steps :
             /\ o.steps[i].status = "failed"
             /\ o.steps[j].status = "completed"
             /\ o.steps[j].endTime > o.steps[i].endTime

\* C12: in an execution of a non-parallel workflow every step record but the
\* last is completed and results holds exactly the results of the completed
\* steps; when a step has failed it is the last step record (step k), the
\* execution's status is 'failed' with the end time of that step, the call
\* has thrown, and results holds exactly the entries of steps 1..k-1; and the
\* turn of an execution changes no health entry of an agent whose step has
\* no step record in it.
SequentialAbortState ==
  \A c \in SequentialCalls :
    LET o     == orchs[wfCalls[c].o]
        steps == Workflows[wfCalls[c].workflowName].steps
        n     == Len(o.steps)
    IN  /\ \A i \in 1..(n - 1) : o.steps[i].status = "completed"
        /\ DOMAIN o.results
             = {steps[i] : i \in {j \in 1..n : o.steps[j].status = "completed"}}
        /\ \A i \in 1..n :
             o.steps[i].status = "completed"
               => o.results[steps[i]] = o.steps[i].result
        /\ FailedSteps(o) # {} =>
             /\ FailedSteps(o) = {n}
             /\ o.status = "failed"
             /\ o.endTime = o.steps[n].endTime
             /\ wfCalls[c].state = "thrown"
             /\ DOMAIN o.results = {steps[i] : i \in 1..(n - 1)}
        /\ o.status = "failed" <=> FailedSteps(o) # {}
        /\ wfCalls[c].state = "thrown" <=> FailedSteps(o) # {}

SequentialAbortStep ==
  \A c \in DOMAIN wfCalls' :
    LET o     == wfCalls'[c].o
        steps == Workflows[wfCalls'[c].workflowName].steps
    IN  (/\ wfCalls'[c].workflowName \in DOMAIN Workflows
         /\ ~Workflows[wfCalls'[c].workflowName].parallel
         /\ (o \notin DOMAIN orchs \/ orchs'[o] # orchs[o]))
          => \A j \in DOMAIN steps :
               j > Len(orchs'[o].steps)
                 => agentHealth'[steps[j]] = agentHealth[steps[j]]

SequentialAbort == []SequentialAbortState /\ [][SequentialAbortStep]_vars

\* A sequential workflow failed at its second step: the first step's result
\* is recorded and two steps were never begun.
SequentialAbortWitness ==
  \E c \in SequentialCalls :
    LET o == orchs[wfCalls[c].o]
    IN  /\ wfCalls[c].state = "thrown"
        /\ Len(o.steps) = 2
        /\ o.steps[1].status = "completed"
        /\ o.steps[2].status = "failed"
        /\ Len(Workflows[wfCalls[c].workflowName].steps) = 4

\* C13 as claimed: every orchestrateWorkflow call with a registered name that
\* has ended has returned the execution record, finalized with a terminal
\* status and an end time.
RegisteredCalls ==
  {c \in DOMAIN wfCalls : wfCalls[c].workflowName \in DOMAIN Workflows}

OrchTerminal == {"completed", "completed_with_errors", "failed"}

\* A terminal status and an end time (a time, not before the start).
Finalized(o) == o.status \in OrchTerminal /\ o.endTime >= o.startTime

OrchestrationAlwaysReturns ==
  \A c \in RegisteredCalls :
    wfCalls[c].state # "running"
      => /\ wfCalls[c].state = "returned"
         /\ Finalized(orchs[wfCalls[c].o])

\* C13 as amended: every orchestrateWorkflow call with a registered name
\* ends within the time of its steps; when it has ended the execution is
\* finalized (terminal status, end time); the call returned the record when
\* the status is 'completed' or 'completed_with_errors', and threw the failed
\* step's error when the status is 'failed'.
OrchestrationFinalizes ==
  \A c \in RegisteredCalls :
    LET o     == orchs[wfCalls[c].o]
        steps == Workflows[wfCalls[c].workflowName].steps
    IN  /\ wfCalls[c].state = "running"
             => /\ o.status = "running"
                /\ o.endTime = NoValue
                /\ now - wfCalls[c].at <= StepDelay * Len(steps)
        /\ wfCalls[c].state # "running"
             => Finalized(o)
        /\ wfCalls[c].state = "returned"
             <=> o.status \in {"completed", "completed_with_errors"}
        /\ wfCalls[c].state = "returned" => wfCalls[c].value = "orchestration"
        /\ wfCalls[c].state = "thrown" <=> o.status = "failed"
        /\ wfCalls[c].state = "thrown"
             => \E i \in DOMAIN o.steps :
                  /\ o.steps[i].status = "failed"
                  /\ wfCalls[c].value = o.steps[i].error

\* One call has returned its record and a later one has thrown, its
\* execution finalized as 'failed'.
OrchestrationFinalizesWitness ==
  \E c \in RegisteredCalls, d \in RegisteredCalls :
    /\ wfCalls[c].state = "returned"
    /\ wfCalls[d].state = "thrown"
    /\ Finalized(orchs[wfCalls[d].o])
    /\ orchs[wfCalls[d].o].status = "failed"

\* C14: a health-check tick leaves 'unhealthy' every agent whose lastSeen is
\* more than 3 x healthCheckInterval before the tick, whatever its status
\* and errorRate were; and in every state in which the tick of the current
\* instant has run, every such agent is 'unhealthy'.
Stale(h, t) == t - h.lastSeen > 3 * HealthCheckInterval

StaleTickStep ==
  nextHealthCheck' # nextHealthCheck
    => \A a \in HealthAgents :
         Stale(agentHealth[a], now) => agentHealth'[a].status = "unhealthy"

TickedNow == nextHealthCheck = now + HealthCheckInterval

StaleAfterTick ==
  TickedNow
    => \A a \in HealthAgents :
         Stale(agentHealth[a], now) => agentHealth[a].status = "unhealthy"

StaleUnhealthy == []StaleAfterTick /\ [][StaleTickStep]_vars

\* A tick has just marked 'unhealthy' an agent whose errorRate is above 0.2
\* and which was not stale at the tick before (it was 'degraded' then).
StaleUnhealthyWitness ==
  /\ TickedNow
  /\ \E a \in HealthAgents :
       /\ agentHealth[a].status = "unhealthy"
       /\ Stale(agentHealth[a], now)
       /\ ~Stale(agentHealth[a], now - HealthCheckInterval)
       /\ agentHealth[a].errorRate.n * 10 > 2 * agentHealth[a].errorRate.d
       /\ agentHealth[a].lastSeen > 0

\* C15: a getAgentLogs(agentName, limit) call on a registered agent hands
\* back min(limit, number of stored entries) entries, the most recently
\* appended ones, newest first, for every limit >= 0.
LogsNewestFirstLimited ==
  (reply.op = "getAgentLogs" /\ reply.agentName \in Agents /\ reply.limit >= 0)
    => LET L == agents[reply.agentName].logs
           n == Min(reply.limit, Len(L))
       IN  /\ Len(reply.value) = n
           /\ \A i \in 1..n : reply.value[i] = L[Len(L) + 1 - i]

\* C16 as claimed: every accessor call naming an unregistered agent fails
\* with the agent-not-found error.
AccessorsRejectUnknown ==
  (reply.op # "none" /\ reply.agentName \notin Agents)
    => (reply.outcome = "thrown" /\ reply.error = "Agent not found")

\* C16 as amended: for an unregistered name getAgentStatus and
\* getAgentConfiguration hand back null, getAgentLogs hands back an empty
\* list, and only updateAgentConfiguration fails with the agent-not-found
\* error, changing nothing; for a registered name the three getters hand
\* back the named agent's status, newest-first log entries and configuration
\* and change nothing, and updateAgentConfiguration merges the configuration
\* into the named agent's settings and logs on that agent, leaving every
\* other agent alone.
Getters == {"getAgentStatus", "getAgentLogs", "getAgentConfiguration"}

AccessReplyOk ==
  LET a == reply.agentName
  IN  /\ reply.op = "getAgentStatus" =>
           /\ reply.outcome = "returned"
           /\ IF a \in Agents
                THEN /\ reply.kind = "value"
                     /\ reply.value.name = DisplayName[a]
                     /\ reply.value.status = agents[a].status
                     /\ reply.value.task = agents[a].currentTask
                     /\ reply.value.progress = agents[a].progress
                     /\ reply.value.queueLength = Len(agents[a].taskQueue)
                     /\ reply.value.metrics = agents[a].metrics
                ELSE reply.kind = "null"
      /\ reply.op = "getAgentLogs" =>
           /\ reply.outcome = "returned"
           /\ reply.kind = "value"
           /\ IF a \in Agents
                THEN /\ Len(reply.value) <= Len(agents[a].logs)
                     /\ \A i \in DOMAIN reply.value :
                          reply.value[i]
                            = agents[a].logs[Len(agents[a].logs) + 1 - i]
                ELSE Len(reply.value) = 0
      /\ reply.op = "getAgentConfiguration" =>
           /\ reply.outcome = "returned"
           /\ IF a \in Agents
                THEN /\ reply.kind = "value"
                     /\ reply.value.name = DisplayName[a]
                     /\ reply.value.settings = settings[a]
                     /\ reply.value.capabilities = Capabilities[a]
                ELSE reply.kind = "null"
      /\ reply.op = "updateAgentConfiguration" =>
           IF a \in Agents
             THEN /\ reply.outcome = "returned"
                  /\ \A k \in DOMAIN reply.arg :
                       /\ k \in DOMAIN settings[a]
                       /\ settings[a][k] = reply.arg[k]
                  /\ agents[a].logs[Len(agents[a].logs)].message
                       = "Configuration updated"
             ELSE /\ reply.outcome = "thrown"
                  /\ reply.error = "Agent not found"

AccessStep ==
  LET a == reply'.agentName
  IN  /\ reply'.op \in Getters => UNCHANGED <<queueVars, settings>>
      /\ reply'.op = "updateAgentConfiguration" =>
           /\ UNCHANGED <<tasks, taskCounter, calls>>
           /\ IF a \in Agents
                THEN /\ \A b \in Agents \ {a} :
                          settings'[b] = settings[b] /\ agents'[b] = agents[b]
                     /\ DOMAIN settings'[a]
                          = DOMAIN settings[a] \cup DOMAIN reply'.arg
                     /\ \A k \in DOMAIN settings[a] \ DOMAIN reply'.arg :
                          settings'[a][k] = settings[a][k]
                     /\ agents'[a].status = agents[a].status
                     /\ agents'[a].taskQueue = agents[a].taskQueue
                     /\ agents'[a].metrics = agents[a].metrics
                     /\ agents'[a].logCount = agents[a].logCount + 1
                ELSE UNCHANGED <<agents, settings>>

AccessorsPassThrough == []AccessReplyOk /\ [][AccessStep]_vars

\* updateAgentConfiguration has just thrown for an unregistered name, after
\* an update of the parser and one of the cleaner went through while a task
\* was in the system.
AccessorsPassThroughWitness ==
  /\ reply.op = "updateAgentConfiguration"
  /\ reply.agentName \notin Agents
  /\ reply.outcome = "thrown"
  /\ settings["parser"].csvDelimiter = ";"
  /\ "csvDelimiter" \in DOMAIN settings["cleaner"]
  /\ taskCounter > 0

\* C17: a step changes the fields (queue, status, metrics, logs) of at most
\* one agent; a step that changes a task changes no agent but the task's
\* owner; and a task submitted to an idle agent is started within the step
\* that submits it, whatever the other agents are doing (failed and in
\* their recovery pause, or waiting for a handler).
IndependentStep ==
  /\ \A a \in Agents :
       agents'[a] # agents[a]
         => \A b \in Agents \ {a} : agents'[b] = agents[b]
  /\ \A t \in DOMAIN tasks :
       tasks'[t] # tasks[t]
         => \A b \in Agents \ {tasks[t].owner} : agents'[b] = agents[b]
  /\ \A t \in DOMAIN tasks' \ DOMAIN tasks :
       /\ \A b \in Agents \ {tasks'[t].owner} : agents'[b] = agents[b]
       /\ agents[tasks'[t].owner].status = "idle"
            => tasks'[t].startedAt = "set"

AgentsIndependent == [][IndependentStep]_vars

\* The parser is in its recovery pause after a failed task, and a task
\* submitted to the idle cleaner after that failure is being processed.
AgentsIndependentWitness ==
  \E t \in DOMAIN tasks, u \in DOMAIN tasks :
    /\ t < u
    /\ tasks[t].owner = "parser" /\ UnknownType(t) /\ tasks[t].status = "failed"
    /\ agents["parser"].status = "error" /\ agents["parser"].timersRecover = 1
    /\ tasks[u].owner = "cleaner" /\ tasks[u].status = "processing"
    /\ agents["cleaner"].status = "processing"

\* C18: a task is created 'pending'; from 'pending' it goes to 'processing'
\* (or, within the turn that starts it, on to 'failed'), from 'processing'
\* to 'completed' or 'failed', and a completed or failed task never changes
\* again; a task that has left 'pending' has its start stamp, so none
\* reaches a terminal status without having been set to 'processing'; only
\* pending tasks are in a queue and only processing tasks are awaited.
StatusStep ==
  \A t \in DOMAIN tasks' :
    LET old == IF t \in DOMAIN tasks THEN tasks[t].status ELSE "pending"
        new == tasks'[t].status
    IN  /\ old = "pending" => new \in {"pending", "processing", "failed"}
        /\ (old = "pending" /\ new = "failed")
             => tasks'[t].error = "Unknown task type"
        /\ old = "processing" => new \in {"processing", "completed", "failed"}
        /\ old \in Terminal => tasks'[t] = tasks[t]

StatusStamps ==
  /\ \A t \in DOMAIN tasks :
       /\ tasks[t].status = "pending" <=> tasks[t].startedAt = NoValue
       /\ tasks[t].status \in Terminal <=> tasks[t].completedAt = "set"
  /\ \A a \in Agents :
       /\ \A i \in DOMAIN agents[a].taskQueue :
            tasks[agents[a].taskQueue[i]].status = "pending"
       /\ \A t \in agents[a].inflight : tasks[t].status = "processing"

StatusMonotone == []StatusStamps /\ [][StatusStep]_vars

\* A task whose handler threw stays failed while a later task of the same
\* agent has completed and the agent is idle again.
StatusMonotoneWitness ==
  \E t \in DOMAIN tasks, u \in DOMAIN tasks :
    /\ t < u
    /\ tasks[t].owner = tasks[u].owner
    /\ tasks[t].status = "failed" /\ tasks[t].error = "handler error"
    /\ tasks[u].status = "completed"
    /\ agents[tasks[t].owner].status = "idle"

\* C19: an agent's status is 'error' exactly while its recovery timer is
\* pending, and nothing of the agent runs then; a step other than the firing
\* of that timer leaves the status 'error' and starts no task of the agent
\* (a task added meanwhile only joins the queue); the firing of the timer
\* starts the head of the queue, or leaves the agent 'idle' when the queue is
\* empty.
InRecovery(a) == agents[a].timersRecover > 0

RecoveryState ==
  \A a \in Agents :
    /\ agents[a].status = "error" <=> InRecovery(a)
    /\ InRecovery(a) =>
         /\ agents[a].timersRecover = 1
         /\ agents[a].inflight = {}
         /\ agents[a].timersNext = 0

Started(t) == t \in DOMAIN tasks /\ tasks[t].startedAt = "set"

RecoveryStep ==
  \A a \in Agents :
    InRecovery(a) =>
      IF RecoveryTimerFires(a)
        THEN IF agents[a].taskQueue = <<>>
               THEN /\ agents'[a].status = "idle"
                    /\ agents'[a].taskQueue = <<>>
                    /\ tasks' = tasks
               ELSE /\ ~Started(Head(agents[a].taskQueue))
                    /\ tasks'[Head(agents[a].taskQueue)].startedAt = "set"
                    /\ agents'[a].taskQueue = Tail(agents[a].taskQueue)
                    /\ agents'[a].status \in {"processing", "error"}
        ELSE /\ agents'[a].status = "error"
             /\ InRecovery(a)'
             /\ \A t \in DOMAIN tasks' :
                  (tasks'[t].owner = a /\ tasks'[t].startedAt = "set")
                    => Started(t)
             /\ \A i \in DOMAIN agents[a].taskQueue :
                  agents'[a].taskQueue[i] = agents[a].taskQueue[i]

RecoveryPause == []RecoveryState /\ [][RecoveryStep]_vars

\* A task failed, another was added to the queue during the pause, and was
\* started when the pause ended: the three log entries follow one another.
RecoveryPauseWitness ==
  \E a \in Agents :
    \E i \in DOMAIN agents[a].logs :
      /\ i + 2 \in DOMAIN agents[a].logs
      /\ agents[a].logs[i].message = "Task failed"
      /\ agents[a].logs[i + 1].message = "Task added to queue"
      /\ agents[a].logs[i + 2].message = "Starting task"
      /\ agents[a].logs[i + 2].data = agents[a].logs[i + 1].data

\* C20: a step record created for an agent that is 'unhealthy' at that
\* moment is 'failed' at once, with the unhealthy error, no result, its end
\* time equal to its start time and no processing timer, and the agent's
\* lastSeen and avgResponseTime are as before; a step record created for any
\* other agent is 'running' with a processing timer; and a failed step record
\* never has a result.
NewSteps(o) ==
  IF o \in DOMAIN orchs
    THEN DOMAIN orchs'[o].steps \ DOMAIN orchs[o].steps
    ELSE DOMAIN orchs'[o].steps

PreflightStep ==
  \A o \in DOMAIN orchs' :
    \A i \in NewSteps(o) :
      LET step == orchs'[o].steps[i]
          a    == step.agent
      IN  IF a \notin DOMAIN agentHealth \/ agentHealth[a].status = "unhealthy"
            THEN /\ step.status = "failed"
                 /\ step.error = "Agent is unhealthy"
                 /\ step.result = NoValue
                 /\ step.startTime = now /\ step.endTime = now
                 /\ \A tm \in stepTimers' \ stepTimers : tm.step # i
                 /\ a \in DOMAIN agentHealth =>
                      /\ agentHealth'[a].lastSeen = agentHealth[a].lastSeen
                      /\ agentHealth'[a].avgResponseTime
                           = agentHealth[a].avgResponseTime
            ELSE /\ step.status = "running"
                 /\ \E tm \in stepTimers' \ stepTimers :
                      tm.step = i /\ tm.due = now + StepDelay

FailedStepsEmpty ==
  \A o \in DOMAIN orchs :
    \A i \in FailedSteps(orchs[o]) :
      /\ orchs[o].steps[i].result = NoValue
      /\ orchs[o].steps[i].endTime = orchs[o].steps[i].startTime

UnhealthyRejected == []FailedStepsEmpty /\ [][PreflightStep]_vars

\* A step was rejected for an agent that had completed a step earlier: its
\* lastSeen and avgResponseTime are those of the earlier step, its errorRate
\* counts the rejection.
UnhealthyRejectedWitness ==
  \E o \in DOMAIN orchs :
    \E i \in FailedSteps(orchs[o]) :
      LET h == agentHealth[orchs[o].steps[i].agent]
      IN  /\ h.status = "unhealthy"
          /\ h.lastSeen > 0
          /\ h.lastSeen < orchs[o].steps[i].startTime
          /\ h.avgResponseTime # Frac(InitialAvgResponseTime, 1)
          /\ h.errorRate.n > 0

\* C21 as claimed: an execution is 'running' or in one terminal status;
\* 'completed' only when every step succeeded, 'completed_with_errors' only
\* for a parallel workflow with a failed step and a succeeded step, 'failed'
\* only for a sequential workflow with a failed step; and an execution in a
\* terminal status never changes.
CompletedSteps(o) == {i \in DOMAIN o.steps : o.steps[i].status = "completed"}

TerminalKept ==
  \A o \in DOMAIN orchs :
    orchs[o].status \in OrchTerminal => orchs'[o] = orchs[o]

StatusMeaningClaimed ==
  \A o \in DOMAIN orchs :
    LET e == orchs[o]
    IN  /\ e.status \in {"running"} \cup OrchTerminal
        /\ e.status = "completed" => CompletedSteps(e) = DOMAIN e.steps
        /\ e.status = "completed_with_errors" =>
             /\ Workflows[e.name].parallel
             /\ FailedSteps(e) # {}
             /\ CompletedSteps(e) # {}
        /\ e.status = "failed" =>
             /\ ~Workflows[e.name].parallel
             /\ FailedSteps(e) # {}

ExecutionStatusClaimed == []StatusMeaningClaimed /\ [][TerminalKept]_vars

\* C21 as amended: as claimed, except that 'completed_with_errors' is the
\* status of every finished parallel workflow in which at least one step
\* failed, also when no step succeeded; and an execution is 'running'
\* exactly while its orchestrateWorkflow call is suspended.
StatusMeaning ==
  \A o \in DOMAIN orchs :
    LET e == orchs[o]
    IN  /\ e.status \in {"running"} \cup OrchTerminal
        /\ e.status = "running" <=> (frame # NoFrame /\ frame.o = o)
        /\ e.status = "completed" =>
             /\ CompletedSteps(e) = DOMAIN e.steps
             /\ Len(e.steps) = Len(Workflows[e.name].steps)
        /\ e.status = "completed_with_errors" =>
             /\ Workflows[e.name].parallel
             /\ FailedSteps(e) # {}
             /\ FailedSteps(e) \cup CompletedSteps(e) = DOMAIN e.steps
        /\ e.status = "failed" =>
             /\ ~Workflows[e.name].parallel
             /\ FailedSteps(e) # {}

ExecutionStatus == []StatusMeaning /\ [][TerminalKept]_vars

\* A parallel workflow has ended 'completed_with_errors' with every step
\* failed, and an execution that ended before it is still as it ended.
ExecutionStatusWitness ==
  \E o \in DOMAIN orchs, p \in DOMAIN orchs :
    /\ p < o
    /\ orchs[p].status \in OrchTerminal
    /\ orchs[o].status = "completed_with_errors"
    /\ FailedSteps(orchs[o]) = DOMAIN orchs[o].steps
    /\ Len(orchs[o].steps) = 2

\* C22: an orchestrateWorkflow call with an unregistered workflow name
\* throws the workflow-not-found error, and the step creates no execution
\* record, leaves the registry as it was and touches no health entry, timer
\* or suspended call.
UnknownWorkflowStep ==
  \A c \in DOMAIN wfCalls' \ DOMAIN wfCalls :
    wfCalls'[c].workflowName \notin DOMAIN Workflows
      => /\ wfCalls'[c].state = "thrown"
         /\ wfCalls'[c].value = "Workflow not found"
         /\ UNCHANGED <<orchs, taskRegistry, agentHealth, stepTimers, frame>>

UnknownWorkflowRejected == [][UnknownWorkflowStep]_vars

\* A call with an unregistered name has thrown after an execution was
\* registered: the registry holds that one execution only.
UnknownWorkflowRejectedWitness ==
  \E c \in DOMAIN wfCalls :
    /\ c > 1
    /\ wfCalls[c].workflowName \notin DOMAIN Workflows
    /\ wfCalls[c].state = "thrown"
    /\ Len(orchs) = 1
    /\ Cardinality(DOMAIN taskRegistry) = 1

\* C23: a health-check tick gives every tracked agent the status
\* 'unhealthy' when the time since its lastSeen exceeds 3 x
\* healthCheckInterval, else 'degraded' when its errorRate exceeds 1/5, else
\* 'healthy', and changes no other field of any health entry, nor the set of
\* tracked agents.
ErrorRateHigh(h) == 5 * h.errorRate.n > h.errorRate.d

ExpectedStatus(h, t) ==
  IF Stale(h, t) THEN "unhealthy"
  ELSE IF ErrorRateHigh(h) THEN "degraded"
  ELSE "healthy"

TickStep ==
  nextHealthCheck' # nextHealthCheck
    => /\ DOMAIN agentHealth' = DOMAIN agentHealth
       /\ \A a \in DOMAIN agentHealth :
            /\ agentHealth'[a].status = ExpectedStatus(agentHealth[a], now)
            /\ agentHealth'[a].agentName = agentHealth[a].agentName
            /\ agentHealth'[a].lastSeen = agentHealth[a].lastSeen
            /\ agentHealth'[a].taskCount = agentHealth[a].taskCount
            /\ agentHealth'[a].errorRate = agentHealth[a].errorRate
            /\ agentHealth'[a].avgResponseTime = agentHealth[a].avgResponseTime

TickRecomputesStatus == [][TickStep]_vars

\* A tick has just left one agent 'degraded' (fresh, errorRate above 1/5)
\* and another 'unhealthy' (stale), both with steps counted.
TickRecomputesStatusWitness ==
  /\ TickedNow
  /\ \E a \in HealthAgents, b \in HealthAgents :
       /\ agentHealth[a].status = "degraded"
       /\ ~Stale(agentHealth[a], now) /\ ErrorRateHigh(agentHealth[a])
       /\ agentHealth[b].status = "unhealthy"
       /\ Stale(agentHealth[b], now)
       /\ agentHealth[b].taskCount > 0

\* C24: the errorRate of every health entry is a fraction in [0,1]; a step
\* that completes successfully for an agent lowers a positive errorRate, and
\* a step that fails for an agent raises an errorRate below 1.
LessFrac(x, y) == x.n * y.d < y.n * x.d

StepSucceededFor(a) ==
  /\ agentHealth'[a].taskCount = agentHealth[a].taskCount + 1
  /\ agentHealth'[a].lastSeen # agentHealth[a].lastSeen

StepFailedFor(a) ==
  /\ agentHealth'[a].taskCount = agentHealth[a].taskCount + 1
  /\ agentHealth'[a].lastSeen = agentHealth[a].lastSeen

ErrorRateStep ==
  \A a \in HealthAgents :
    LET e  == agentHealth[a].errorRate
        e2 == agentHealth'[a].errorRate
    IN  /\ 0 <= e2.n /\ e2.n <= e2.d
        /\ (StepSucceededFor(a) /\ e.n > 0) => LessFrac(e2, e)
        /\ (StepFailedFor(a) /\ e.n < e.d) => LessFrac(e, e2)

ErrorRateRunningFraction == [][ErrorRateStep]_vars

\* C25: with load balancing enabled and at least one target agent, what
\* balanceLoad returns assigns chunks of at most ceil(len(tasks)/numAgents)
\* tasks to target agents, every task to exactly one agent, and the chunks
\* in agent order concatenate to the task list; a call made while load
\* balancing is disabled assigns nothing.
RECURSIVE Concat(_)
Concat(m) == IF Len(m) = 0 THEN <<>> ELSE m[1].value \o Concat(Tail(m))

Elems(s) == {s[i] : i \in 1..Len(s)}

Balanced(r) ==
  r.op = "balance_load" /\ "agentAssignments" \in DOMAIN r.result

ChunksPartition(r) ==
  LET m    == r.result.agentAssignments
      size == ceil(Len(r.data.tasks), Len(r.data.targetAgents))
  IN  /\ \A i \in 1..Len(m) : m[i].key \in Elems(r.data.targetAgents)
      /\ \A a \in Elems(r.data.targetAgents) : \E i \in 1..Len(m) : m[i].key = a
      /\ \A i \in 1..Len(m) : Len(m[i].value) <= size
      /\ \A t \in Elems(r.data.tasks) :
           Cardinality({i \in 1..Len(m) : t \in Elems(m[i].value)}) = 1
      /\ Concat(m) = r.data.tasks

BalanceLoadCalled ==
  /\ policyFrame = NoPolicyFrame
  /\ reply'.op = "balance_load" \/ policyFrame'.op = "balance_load"

DisabledStep ==
  (BalanceLoadCalled /\ ~supervisorSettings.loadBalancingEnabled)
    => /\ policyFrame' = NoPolicyFrame
       /\ reply'.op = "balance_load"
       /\ "agentAssignments" \notin DOMAIN reply'.result

BalanceLoadChunks ==
  /\ []((Balanced(reply) /\ Len(reply.data.targetAgents) > 0)
          => ChunksPartition(reply))
  /\ [][DisabledStep]_vars

\* C26: what handleFailures returns holds exactly one recovery action per
\* failed task and lists the task in exactly one of retriedTasks and
\* permanentFailures: 'retry' with retryCount + 1 when auto-retry is enabled
\* and the task's prior retryCount (0 when absent) is below maxRetryAttempts,
\* else 'escalate'; a task that has reached maxRetryAttempts is never
\* retried, and the call changes no agent's queue.
ShouldRetry(t) ==
  /\ supervisorSettings.autoRetryFailedTasks
  /\ retryCountOf(t) < supervisorSettings.maxRetryAttempts

Retried(r, t) ==
  {i \in 1..Len(r.result.retriedTasks) : r.result.retriedTasks[i].taskId = t.id}

Permanent(r, t) ==
  {i \in 1..Len(r.result.permanentFailures) :
     r.result.permanentFailures[i].id = t.id}

FailuresClassified(r) ==
  LET failed == r.data.failedTasks
  IN  /\ Len(r.result.recoveryActions) = Len(failed)
      /\ Len(r.result.retriedTasks) + Len(r.result.permanentFailures)
           = Len(failed)
      /\ \A i \in 1..Len(failed) :
           LET t == failed[i]
           IN  /\ r.result.recoveryActions[i].taskId = t.id
               /\ IF ShouldRetry(t)
                    THEN /\ r.result.recoveryActions[i].action = "retry"
                         /\ Cardinality(Retried(r, t)) = 1
                         /\ Permanent(r, t) = {}
                         /\ \A j \in Retried(r, t) :
                              r.result.retriedTasks[j].retryCount
                                = retryCountOf(t) + 1
                    ELSE /\ r.result.recoveryActions[i].action = "escalate"
                         /\ Cardinality(Permanent(r, t)) = 1
                         /\ Retried(r, t) = {}
               /\ retryCountOf(t) >= supervisorSettings.maxRetryAttempts
                    => Retried(r, t) = {}

HandleFailuresStep ==
  (policyFrame'.op = "handle_failures" \/ reply'.op = "handle_failures")
    => UNCHANGED <<agents, tasks, taskCounter>>

FailuresClassifiedOnce ==
  /\ [](reply.op = "handle_failures" => FailuresClassified(reply))
  /\ [][HandleFailuresStep]_vars

FailuresClassifiedOnceWitness ==
  /\ reply.op = "handle_failures"
  /\ supervisorSettings.autoRetryFailedTasks
  /\ \E i, j \in 1..Len(reply.data.failedTasks) :
       /\ "retryCount" \notin DOMAIN reply.data.failedTasks[i]
       /\ Retried(reply, reply.data.failedTasks[i]) # {}
       /\ retryCountOf(reply.data.failedTasks[j])
            = supervisorSettings.maxRetryAttempts
       /\ Permanent(reply, reply.data.failedTasks[j]) # {}

\* C27: in every state (every point where control is back with the event
\* loop) an agent whose status is 'idle' has an empty task queue, none of its
\* tasks in 'processing', and no drain step or timer pending.
Processing(a) == {t \in TasksOf(a) : tasks[t].status = "processing"}

IdleMeansDrained ==
  \A a \in Agents :
    agents[a].status = "idle"
      => /\ Len(agents[a].taskQueue) = 0
         /\ Processing(a) = {}
         /\ agents[a].inflight = {}
         /\ agents[a].timersNext + agents[a].timersRecover = 0

\* An agent is idle again after it has worked through a success and a
\* failure.
IdleMeansDrainedWitness ==
  \E a \in Agents :
    /\ agents[a].status = "idle"
    /\ agents[a].metrics.tasksSuccessful > 0
    /\ agents[a].metrics.tasksFailed > 0

\* C28: for every agent, the number of tasks submitted to it equals
\* queueLength as getStatus reports it, plus the number of its tasks in
\* 'processing' (0 or 1), plus metrics.tasksProcessed.
TasksConserved ==
  \A a \in Agents :
    /\ Cardinality(Processing(a)) \in {0, 1}
    /\ Cardinality(TasksOf(a))
         = getStatus(a).queueLength + Cardinality(Processing(a))
             + getStatus(a).metrics.tasksProcessed

\* An agent with a task waiting, a task in 'processing' and a task done.
TasksConservedWitness ==
  \E a \in Agents :
    /\ getStatus(a).queueLength = 1
    /\ Cardinality(Processing(a)) = 1
    /\ getStatus(a).metrics.tasksProcessed = 1

\* C29: no workflow step completes successfully (taskCount and lastSeen of
\* the agent's health entry updated) for an agent whose health status is
\* 'unhealthy' at that moment, also when a health-check tick fired while the
\* step was in its processing delay.
SuccessWhileHealthyStep ==
  \A a \in HealthAgents :
    StepSucceededFor(a) => agentHealth[a].status # "unhealthy"

NoSuccessWhileUnhealthy == [][SuccessWhileHealthyStep]_vars

\* C30: once a health-check tick has marked an agent 'unhealthy' while no
\* workflow step for that agent was in flight, the agent is 'unhealthy' in
\* every later state, whatever orchestrations and ticks follow.  In
\* inductive form: an agent so marked is out of reach (unhealthy, no step of
\* it in flight, lastSeen too old for the next tick), and an agent out of
\* reach is out of reach after every step.
InFlight(a) ==
  \E o \in DOMAIN orchs : \E i \in DOMAIN orchs[o].steps :
    orchs[o].steps[i].agent = a /\ orchs[o].steps[i].status = "running"

QuietlyMarked(a) ==
  /\ TickedNow
  /\ agentHealth[a].status = "unhealthy"
  /\ ~InFlight(a)

OutOfReach(a) ==
  /\ agentHealth[a].status = "unhealthy"
  /\ ~InFlight(a)
  /\ Stale(agentHealth[a], nextHealthCheck)

AbsorbingStep ==
  \A a \in HealthAgents : OutOfReach(a) => OutOfReach(a)'

UnhealthyAbsorbing ==
  /\ [](\A a \in HealthAgents : QuietlyMarked(a) => OutOfReach(a))
  /\ [][AbsorbingStep]_vars

\* An agent marked at a quiet tick was sent a step later (rejected: it has
\* never been seen) and a later tick has found it unhealthy again.
UnhealthyAbsorbingWitness ==
  \E a \in HealthAgents :
    /\ QuietlyMarked(a)
    /\ agentHealth[a].taskCount > 0
    /\ agentHealth[a].lastSeen = 0
    /\ now > 4 * HealthCheckInterval

====
